---- MODULE Spec2Model ----
(***************************************************************************)
(* Fancy_Functions core: cells, the in-memory store, the function catalog, *)
(* workflow construction and the engine's run loop (src/src/fancy_core).   *)
(*                                                                         *)
(* Identifiers produced by uuid4() are modelled by one counter, uuid: each *)
(* call takes the next natural number, so two calls never agree.  Python   *)
(* values are records of one shape (tag t plus one payload field per       *)
(* type), so that values of different Python types can be compared.        *)
(***************************************************************************)
EXTENDS Integers, Sequences, FiniteSets, TLC

VARIABLES
    registry,   \* FunctionRegistry._registry: slug -> executable
    steps,      \* Workflow.steps
    cells,      \* the cells the caller holds and may pass as initial_cells
    data,       \* InMemoryStore._data of the engine's store: uri -> value
    uuid,       \* the next value uuid4() returns
    initial,    \* Engine.run's initial_cells argument
    ctx,        \* Engine.run's local context: cell id -> cell
    pc,         \* "build" | "running" | "returned" | "raised"
    idx,        \* position of Engine.run's loop in workflow.steps
    err,        \* the exception Engine.run raised
    ret,        \* what Engine.run returned
    calls,      \* the invocations of user logic of the current run, in order
    runs,       \* number of Engine.run calls begun
    prev,       \* outcomes of the earlier Engine.run calls
    vars,       \* WorkflowBuilder.vars: alias -> cell id
    berr,       \* the exception the last WorkflowBuilder.add_step raised
    bret,       \* the id the last WorkflowBuilder.add_step returned
    ncalls,     \* number of WorkflowBuilder.add_step calls made
    aliased,    \* alias -> the id returned by the latest add_step call that
                \* was given the alias as output_alias (history)
    wirings,    \* the StepWiring handles the factory calls returned, in order
    werr,       \* the exception the last factory call raised
    nfactory,   \* number of factory calls made
    resolved,   \* the cells Engine.run passed to store.resolve in the
                \* current run, in order (history)
    other,      \* InMemoryStore._data of a second store
    puts,       \* the put calls made on the two stores, in order (history)
    sres,       \* the outcome of the last store.resolve call of the caller
    gres,       \* the outcome of the last registry.get call of the caller
    regd,       \* slug -> the entry given to the latest register call for
                \* the slug since the last clear, and whether the slug had
                \* an entry at that call (history)
    stack,      \* the list given as default of Workflow._context_stack
    cm          \* the outcome of the caller's last call of __enter__,
                \* __exit__ or get_current

builderVars == <<vars, berr, bret, ncalls, aliased>>
runVars == <<initial, ctx, pc, idx, err, ret, calls, runs, prev, resolved>>
wiringVars == <<wirings, werr, nfactory>>
storeVars == <<other, puts, sres>>
catalogVars == <<gres, regd>>
contextVars == <<stack, cm>>
allVars == <<registry, steps, cells, data, uuid, runVars, builderVars, wiringVars,
             storeVars, catalogVars, contextVars>>

----------------------------------------------------------------------------
(* Bounds of the model *)

MaxSteps == 2
MaxChain == 3
MaxLen == 5
MaxRuns == 2
MaxCalls == 3
MaxSquares == 2
MaxFactoryCalls == 3

----------------------------------------------------------------------------
(* Python values *)

NoneV == [t |-> "none", i |-> 0, l |-> <<>>, s |-> "", m |-> {}]
IntV(n) == [t |-> "int", i |-> n, l |-> <<>>, s |-> "", m |-> {}]
ListV(q) == [t |-> "list", i |-> 0, l |-> q, s |-> "", m |-> {}]
TupleV(q) == [t |-> "tuple", i |-> 0, l |-> q, s |-> "", m |-> {}]
StrV(x) == [t |-> "str", i |-> 0, l |-> <<>>, s |-> x, m |-> {}]
\* a dict is a set of <<key, value>> pairs with distinct keys
DictV(pairs) == [t |-> "dict", i |-> 0, l |-> <<>>, s |-> "", m |-> pairs]

Keys(v) == {p[1] : p \in v.m}
Get(v, k) == (CHOOSE p \in v.m : p[1] = k)[2]

\* type(value).__name__
TypeName(v) ==
    CASE v.t = "int" -> "int"
      [] v.t = "list" -> "list"
      [] v.t = "tuple" -> "tuple"
      [] v.t = "str" -> "str"
      [] v.t = "dict" -> "dict"
      [] OTHER -> "NoneType"

\* an iterable that yields nothing
IsEmptyIterable(v) ==
    \/ v.t = "list" /\ v.l = <<>>
    \/ v.t = "str" /\ v.s = ""
    \/ v.t = "dict" /\ v.m = {}

----------------------------------------------------------------------------
(* User logic registered in the catalog by the tests and examples.  A call *)
(* returns [ok, val, exc]: the value, or the exception it raised.          *)

Returned(v) == [ok |-> TRUE, val |-> v, exc |-> ""]
Raised(e) == [ok |-> FALSE, val |-> NoneV, exc |-> e]

RECURSIVE SumSeq(_)
SumSeq(q) == IF q = <<>> THEN 0 ELSE Head(q) + SumSeq(Tail(q))

IsEven(n) == n % 2 = 0

\* [n for n in nums if n % 2 == 0]; the strings of the model hold no '%'
filter_evens(kw) ==
    IF DOMAIN kw # {"nums"} THEN Raised("TypeError")
    ELSE LET v == kw["nums"] IN
         IF v.t = "list" THEN Returned(ListV(SelectSeq(v.l, IsEven)))
         ELSE IF IsEmptyIterable(v) THEN Returned(ListV(<<>>))
         ELSE Raised("TypeError")

\* [n * n for n in nums]
square_numbers(kw) ==
    IF DOMAIN kw # {"nums"} THEN Raised("TypeError")
    ELSE LET v == kw["nums"] IN
         IF v.t = "list"
         THEN Returned(ListV([k \in 1..Len(v.l) |-> v.l[k] * v.l[k]]))
         ELSE IF IsEmptyIterable(v) THEN Returned(ListV(<<>>))
         ELSE Raised("TypeError")

\* sum(nums)
sum_numbers(kw) ==
    IF DOMAIN kw # {"nums"} THEN Raised("TypeError")
    ELSE LET v == kw["nums"] IN
         IF v.t = "list" THEN Returned(IntV(SumSeq(v.l)))
         ELSE IF IsEmptyIterable(v) THEN Returned(IntV(0))
         ELSE Raised("TypeError")

\* Python's a + b on the values of the model
Plus(a, b) ==
    CASE a.t = "int" /\ b.t = "int" -> Returned(IntV(a.i + b.i))
      [] a.t = "str" /\ b.t = "str" -> Returned(StrV(a.s \o b.s))
      [] a.t = "list" /\ b.t = "list" -> Returned(ListV(a.l \o b.l))
      [] OTHER -> Raised("TypeError")

\* def dummy_add(a, b): return a + b
dummy_add(kw) ==
    IF DOMAIN kw # {"a", "b"} THEN Raised("TypeError")
    ELSE Plus(kw["a"], kw["b"])

\* def dummy_prefix(text, prefix="Hello "): return prefix + text
dummy_prefix(kw) ==
    IF ~("text" \in DOMAIN kw /\ DOMAIN kw \subseteq {"text", "prefix"})
    THEN Raised("TypeError")
    ELSE Plus(IF "prefix" \in DOMAIN kw THEN kw["prefix"] ELSE StrV("Hello "),
              kw["text"])

\* def func_add(a, b): return a + b
func_add(kw) ==
    IF DOMAIN kw # {"a", "b"} THEN Raised("TypeError")
    ELSE Plus(kw["a"], kw["b"])

\* def func_str_len(text): return len(text)
func_str_len(kw) ==
    IF DOMAIN kw # {"text"} THEN Raised("TypeError")
    ELSE LET v == kw["text"] IN
         CASE v.t = "str" -> Returned(IntV(Len(v.s)))
           [] v.t = "list" -> Returned(IntV(Len(v.l)))
           [] v.t = "dict" -> Returned(IntV(Cardinality(v.m)))
           [] OTHER -> Raised("TypeError")

\* def extract_metadata(video_url): return {"title": "Title " + video_url,
\* "duration": 120}
extract_metadata(kw) ==
    IF DOMAIN kw # {"video_url"} THEN Raised("TypeError")
    ELSE LET title == Plus(StrV("Title "), kw["video_url"]) IN
         IF ~title.ok THEN title
         ELSE Returned(DictV({<<"title", title.val>>, <<"duration", IntV(120)>>}))

\* FancyFunction.execute: self._executable(*args, **kwargs)
Execute(exe, kw) ==
    CASE exe = "filter_evens" -> filter_evens(kw)
      [] exe = "square_numbers" -> square_numbers(kw)
      [] exe = "sum_numbers" -> sum_numbers(kw)
      [] exe = "dummy_add" -> dummy_add(kw)
      [] exe = "dummy_prefix" -> dummy_prefix(kw)
      [] exe = "func_add" -> func_add(kw)
      [] exe = "func_str_len" -> func_str_len(kw)
      [] exe = "extract_metadata" -> extract_metadata(kw)
      [] OTHER -> Raised("ValueError")

----------------------------------------------------------------------------
(* Cells and the in-memory store *)

NoUri == 0

\* FancyCell.create_value
CreateValue(id, value, alias, type_hint) ==
    [id |-> id, alias |-> alias, type_hint |-> type_hint,
     storage_kind |-> "VALUE", value |-> value,
     reference_uri |-> NoUri, reference_meta |-> "None"]

\* FancyCell.create_reference
CreateReference(id, uri, alias, type_hint) ==
    [id |-> id, alias |-> alias, type_hint |-> type_hint,
     storage_kind |-> "REFERENCE", value |-> NoneV,
     reference_uri |-> uri, reference_meta |-> "{}"]

\* the placeholder cell of the decorator factory
CreatePending(id, alias, type_hint) ==
    [id |-> id, alias |-> alias, type_hint |-> type_hint,
     storage_kind |-> "PENDING", value |-> NoneV,
     reference_uri |-> NoUri, reference_meta |-> "None"]

\* FancyCell.create_composite
CreateComposite(id, children, alias) ==
    [id |-> id, alias |-> alias, type_hint |-> "Composite",
     storage_kind |-> "COMPOSITE", value |-> children,
     reference_uri |-> NoUri, reference_meta |-> "None"]

\* self._data[uri] = value
SetItem(f, k, v) == [x \in DOMAIN f \cup {k} |-> IF x = k THEN v ELSE f[x]]

\* a put that keeps the value inline in the cell and stores nothing
Put_Inline(d, u, value, alias) ==
    [data |-> d,
     cell |-> CreateValue(u + 1, value, alias, TypeName(value)),
     uuid |-> u + 2]

\* a put whose uri is not minted afresh: every value lands under one uri
Put_SharedUri(d, u, value, alias) ==
    [data |-> SetItem(d, 1, value),
     cell |-> CreateReference(u + 1, 1, alias, TypeName(value)),
     uuid |-> u + 2]

\* InMemoryStore.put on table d, with u the next uuid4 value: the uri takes
\* the first fresh uuid, the new cell's id the second
Put(d, u, value, alias) ==
    [data |-> SetItem(d, u, value),
     cell |-> CreateReference(u + 1, u, alias, TypeName(value)),
     uuid |-> u + 2]

\* a resolve that answers None for a uri the table lacks, as dict.get does
Resolve_MissingIsNone(d, cell) ==
    CASE cell.storage_kind = "REFERENCE" ->
            IF cell.reference_uri = NoUri \/ cell.reference_uri \notin DOMAIN d
            THEN Returned(NoneV)
            ELSE Returned(d[cell.reference_uri])
      [] OTHER -> Returned(cell.value)

\* a resolve that has nothing to give for a composite cell
Resolve_CompositeIsNone(d, cell) ==
    CASE cell.storage_kind = "VALUE" -> Returned(cell.value)
      [] cell.storage_kind = "REFERENCE" ->
            IF cell.reference_uri = NoUri \/ cell.reference_uri \notin DOMAIN d
            THEN Raised("ValueError")
            ELSE Returned(d[cell.reference_uri])
      [] OTHER -> Returned(NoneV)

\* a resolve that hands back the reference instead of the referenced value
Resolve_ReturnsUri(d, cell) ==
    CASE cell.storage_kind = "REFERENCE" -> Returned(IntV(cell.reference_uri))
      [] OTHER -> Returned(cell.value)

\* InMemoryStore.resolve
Resolve(d, cell) ==
    CASE cell.storage_kind = "VALUE" -> Returned(cell.value)
      [] cell.storage_kind = "COMPOSITE" -> Returned(cell.value)
      [] cell.storage_kind = "REFERENCE" ->
            IF cell.reference_uri = NoUri \/ cell.reference_uri \notin DOMAIN d
            THEN Raised("ValueError")
            ELSE Returned(d[cell.reference_uri])
      [] OTHER -> Returned(NoneV)

----------------------------------------------------------------------------
(* Steps.  inputs and outputs are dicts whose iteration order the engine   *)
(* follows: sequences of <<name, cell id>> pairs with distinct names.      *)

Names(pairs) == {pairs[k][1] : k \in 1..Len(pairs)}
Lookup(pairs, name) ==
    pairs[CHOOSE k \in 1..Len(pairs) : pairs[k][1] = name][2]
Ids(pairs) == {pairs[k][2] : k \in 1..Len(pairs)}

\* WorkflowStep(...): step_id defaults to uuid4()
WorkflowStep(step_id, slug, config, inputs, outputs) ==
    [step_id |-> step_id, function_slug |-> slug, config |-> config,
     inputs |-> inputs, outputs |-> outputs]

----------------------------------------------------------------------------
(* Engine.run *)

NoId == 0

NoErr == [type |-> "", kind |-> "", slug |-> "", step_id |-> NoId,
          cell_id |-> NoId, uri |-> NoUri, cause |-> ""]

\* ValueError(f"Step '{slug}' (ID: {step_id}) Missing input cell: {cell_id}")
MissingInputError(step, cell_id) ==
    [type |-> "ValueError", kind |-> "MissingInputCell",
     slug |-> step.function_slug, step_id |-> step.step_id,
     cell_id |-> cell_id, uri |-> NoUri, cause |-> ""]

\* ValueError(f"Data not found for URI: {uri}"), raised by the store
DataNotFoundError(uri) ==
    [type |-> "ValueError", kind |-> "DataNotFound", slug |-> "",
     step_id |-> NoId, cell_id |-> NoId, uri |-> uri, cause |-> ""]

\* ValueError(f"Function definition not found for slug: {slug}")
UnknownFunctionError(step) ==
    [type |-> "ValueError", kind |-> "UnknownFunction",
     slug |-> step.function_slug, step_id |-> NoId, cell_id |-> NoId,
     uri |-> NoUri, cause |-> ""]

\* RuntimeError(f"Error executing step {slug}: {str(e)}") from e
StepExecutionError(step, exc) ==
    [type |-> "RuntimeError", kind |-> "StepExecutionError",
     slug |-> step.function_slug, step_id |-> NoId, cell_id |-> NoId,
     uri |-> NoUri, cause |-> exc]

\* a run that starts from an empty context
SeedContext_Empty(cs) == <<>>

\* context = {cell.id: cell for cell in initial_cells}
SeedContext(cs) == [id \in {c.id : c \in cs} |-> CHOOSE c \in cs : c.id = id]

\* an input loop that passes None for an absent cell instead of raising
RECURSIVE ResolveInputs_SkipMissing(_, _, _, _, _)
ResolveInputs_SkipMissing(step, ins, context, d, args) ==
    IF ins = <<>> THEN [ok |-> TRUE, args |-> args, err |-> NoErr]
    ELSE LET arg_name == ins[1][1]
             cell_id == ins[1][2]
         IN  IF cell_id \notin DOMAIN context
             THEN ResolveInputs_SkipMissing(step, Tail(ins), context, d,
                                            SetItem(args, arg_name, NoneV))
             ELSE LET r == Resolve(d, context[cell_id]) IN
                  IF ~r.ok
                  THEN [ok |-> FALSE, args |-> args,
                        err |-> DataNotFoundError(context[cell_id].reference_uri)]
                  ELSE ResolveInputs_SkipMissing(step, Tail(ins), context, d,
                                                 SetItem(args, arg_name, r.val))

\* the loop over step.inputs.items(): the first absent or unresolvable
\* input ends it
RECURSIVE ResolveInputs(_, _, _, _, _)
ResolveInputs(step, ins, context, d, args) ==
    IF ins = <<>> THEN [ok |-> TRUE, args |-> args, err |-> NoErr]
    ELSE LET arg_name == ins[1][1]
             cell_id == ins[1][2]
         IN  IF cell_id \notin DOMAIN context
             THEN [ok |-> FALSE, args |-> args,
                   err |-> MissingInputError(step, cell_id)]
             ELSE LET r == Resolve(d, context[cell_id]) IN
                  IF ~r.ok
                  THEN [ok |-> FALSE, args |-> args,
                        err |-> DataNotFoundError(context[cell_id].reference_uri)]
                  ELSE ResolveInputs(step, Tail(ins), context, d,
                                     SetItem(args, arg_name, r.val))

\* the cells the loop over step.inputs.items() hands to store.resolve, in
\* order: every input up to the first absent one, or up to and including
\* the first whose resolve raises
RECURSIVE ResolveCalls(_, _, _)
ResolveCalls(ins, context, d) ==
    IF ins = <<>> THEN <<>>
    ELSE LET cell_id == ins[1][2] IN
         IF cell_id \notin DOMAIN context THEN <<>>
         ELSE IF ~Resolve(d, context[cell_id]).ok THEN <<context[cell_id]>>
         ELSE <<context[cell_id]>> \o ResolveCalls(Tail(ins), context, d)

\* a merge in which the wired input wins a name collision
MergeKwargs_InputsWin(execution_args, config) ==
    [k \in DOMAIN execution_args \cup DOMAIN config |->
        IF k \in DOMAIN execution_args THEN execution_args[k] ELSE config[k]]

\* a merge that forgets the config
MergeKwargs_DropConfig(execution_args, config) == execution_args

\* final_kwargs = {**execution_args, **step.config}
MergeKwargs(execution_args, config) ==
    [k \in DOMAIN execution_args \cup DOMAIN config |->
        IF k \in DOMAIN config THEN config[k] ELSE execution_args[k]]

\* an interpretation that takes every dict for a multi-output result
IsMultiOutput_AnyDict(step, result) == result.t = "dict"

\* isinstance(result, dict) and any(k in step.outputs for k in result.keys())
IsMultiOutput(step, result) ==
    result.t = "dict" /\ \E k \in Keys(result) : k \in Names(step.outputs)

\* an interpretation that gives a result that is not a multi-output to the
\* step's one declared output, whatever its name
OutputsMap_SoleOutput(step, result) ==
    IF IsMultiOutput(step, result)
    THEN [k \in Keys(result) |-> Get(result, k)]
    ELSE IF Len(step.outputs) = 1
    THEN [k \in {step.outputs[1][1]} |-> result]
    ELSE [k \in {"return"} |-> result]

\* outputs_map = result if is_multi_output else {"return": result}
OutputsMap(step, result) ==
    IF IsMultiOutput(step, result)
    THEN [k \in Keys(result) |-> Get(result, k)]
    ELSE [k \in {"return"} |-> result]

\* alias_hint = f"{step.function_slug}::{output_name}"
AliasHint(step, output_name) == step.function_slug \o "::" \o output_name

\* the stored cell put into the context as the store made it
Reidentify_KeepStoreId(stored_cell, target_cell_id) == stored_cell

\* stored_cell.model_copy(update={"id": target_cell_id})
Reidentify(stored_cell, target_cell_id) ==
    [stored_cell EXCEPT !.id = target_cell_id]

\* an output loop that stores None under a declared name the result lacks
RECURSIVE StoreOutputs_FillAbsent(_, _, _, _, _, _)
StoreOutputs_FillAbsent(step, outs, outputs_map, context, d, u) ==
    IF outs = <<>> THEN [ctx |-> context, data |-> d, uuid |-> u]
    ELSE LET output_name == outs[1][1]
             target_cell_id == outs[1][2]
             val == IF output_name \in DOMAIN outputs_map
                    THEN outputs_map[output_name] ELSE NoneV
             p == Put(d, u, val, AliasHint(step, output_name))
             final_cell == Reidentify(p.cell, target_cell_id)
         IN  StoreOutputs_FillAbsent(step, Tail(outs), outputs_map,
                                     SetItem(context, target_cell_id, final_cell),
                                     p.data, p.uuid)

\* an output loop that leaves alone an id the context already has
\* (context.setdefault(target_cell_id, final_cell))
RECURSIVE StoreOutputs_KeepExisting(_, _, _, _, _, _)
StoreOutputs_KeepExisting(step, outs, outputs_map, context, d, u) ==
    IF outs = <<>> THEN [ctx |-> context, data |-> d, uuid |-> u]
    ELSE LET output_name == outs[1][1]
             target_cell_id == outs[1][2]
         IN  IF output_name \in DOMAIN outputs_map
             THEN LET p == Put(d, u, outputs_map[output_name],
                               AliasHint(step, output_name))
                      final_cell == Reidentify(p.cell, target_cell_id)
                  IN  StoreOutputs_KeepExisting(step, Tail(outs), outputs_map,
                          IF target_cell_id \in DOMAIN context THEN context
                          ELSE SetItem(context, target_cell_id, final_cell),
                          p.data, p.uuid)
             ELSE StoreOutputs_KeepExisting(step, Tail(outs), outputs_map,
                                            context, d, u)

\* the loop over step.outputs.items()
RECURSIVE StoreOutputs(_, _, _, _, _, _)
StoreOutputs(step, outs, outputs_map, context, d, u) ==
    IF outs = <<>> THEN [ctx |-> context, data |-> d, uuid |-> u]
    ELSE LET output_name == outs[1][1]
             target_cell_id == outs[1][2]
         IN  IF output_name \in DOMAIN outputs_map
             THEN LET p == Put(d, u, outputs_map[output_name],
                               AliasHint(step, output_name))
                      final_cell == Reidentify(p.cell, target_cell_id)
                  IN  StoreOutputs(step, Tail(outs), outputs_map,
                                   SetItem(context, target_cell_id, final_cell),
                                   p.data, p.uuid)
             ELSE StoreOutputs(step, Tail(outs), outputs_map, context, d, u)

\* an iteration that runs the logic the add slug was first registered
\* with, whatever the catalog holds when the step executes
Iteration_BoundLogic(step, reg, context, d, u) ==
    LET r == ResolveInputs(step, step.inputs, context, d, <<>>)
        final_kwargs == MergeKwargs(r.args, step.config)
        res == Execute("func_add", final_kwargs)
        seen == ResolveCalls(step.inputs, context, d)
        stay == [raised |-> TRUE, err |-> NoErr, invoked |-> FALSE,
                 kwargs |-> <<>>, result |-> NoneV, resolved |-> seen,
                 ctx |-> context, data |-> d, uuid |-> u]
    IN  IF ~r.ok THEN [stay EXCEPT !.err = r.err]
        ELSE IF ~res.ok
        THEN [stay EXCEPT !.err = StepExecutionError(step, res.exc),
                          !.invoked = TRUE, !.kwargs = final_kwargs]
        ELSE LET o == StoreOutputs(step, step.outputs,
                                   OutputsMap(step, res.val), context, d, u)
             IN  [raised |-> FALSE, err |-> NoErr, invoked |-> TRUE,
                  kwargs |-> final_kwargs, result |-> res.val,
                  resolved |-> seen,
                  ctx |-> o.ctx, data |-> o.data, uuid |-> o.uuid]

\* an iteration that looks the slug up before it takes the inputs
Iteration_LookupFirst(step, reg, context, d, u) ==
    LET r == ResolveInputs(step, step.inputs, context, d, <<>>)
        final_kwargs == MergeKwargs(r.args, step.config)
        res == Execute(reg[step.function_slug], final_kwargs)
        seen == ResolveCalls(step.inputs, context, d)
        stay == [raised |-> TRUE, err |-> NoErr, invoked |-> FALSE,
                 kwargs |-> <<>>, result |-> NoneV, resolved |-> seen,
                 ctx |-> context, data |-> d, uuid |-> u]
    IN  IF step.function_slug \notin DOMAIN reg
        THEN [stay EXCEPT !.err = UnknownFunctionError(step), !.resolved = <<>>]
        ELSE IF ~r.ok THEN [stay EXCEPT !.err = r.err]
        ELSE IF ~res.ok
        THEN [stay EXCEPT !.err = StepExecutionError(step, res.exc),
                          !.invoked = TRUE, !.kwargs = final_kwargs]
        ELSE LET o == StoreOutputs(step, step.outputs,
                                   OutputsMap(step, res.val), context, d, u)
             IN  [raised |-> FALSE, err |-> NoErr, invoked |-> TRUE,
                  kwargs |-> final_kwargs, result |-> res.val,
                  resolved |-> seen,
                  ctx |-> o.ctx, data |-> o.data, uuid |-> o.uuid]

\* an iteration that passes over a step whose slug has no entry: nothing
\* is invoked or stored and the loop goes on
Iteration_SkipUnknown(step, reg, context, d, u) ==
    LET r == ResolveInputs(step, step.inputs, context, d, <<>>)
        final_kwargs == MergeKwargs(r.args, step.config)
        res == Execute(reg[step.function_slug], final_kwargs)
        seen == ResolveCalls(step.inputs, context, d)
        stay == [raised |-> TRUE, err |-> NoErr, invoked |-> FALSE,
                 kwargs |-> <<>>, result |-> NoneV, resolved |-> seen,
                 ctx |-> context, data |-> d, uuid |-> u]
    IN  IF ~r.ok THEN [stay EXCEPT !.err = r.err]
        ELSE IF step.function_slug \notin DOMAIN reg
        THEN [stay EXCEPT !.raised = FALSE]
        ELSE IF ~res.ok
        THEN [stay EXCEPT !.err = StepExecutionError(step, res.exc),
                          !.invoked = TRUE, !.kwargs = final_kwargs]
        ELSE LET o == StoreOutputs(step, step.outputs,
                                   OutputsMap(step, res.val), context, d, u)
             IN  [raised |-> FALSE, err |-> NoErr, invoked |-> TRUE,
                  kwargs |-> final_kwargs, result |-> res.val,
                  resolved |-> seen,
                  ctx |-> o.ctx, data |-> o.data, uuid |-> o.uuid]

\* one iteration of `for step in workflow.steps`, as a value:
\* [raised, err, invoked, kwargs, result, resolved, ctx, data, uuid]
Iteration(step, reg, context, d, u) ==
    LET r == ResolveInputs(step, step.inputs, context, d, <<>>)
        final_kwargs == MergeKwargs(r.args, step.config)
        res == Execute(reg[step.function_slug], final_kwargs)
        seen == ResolveCalls(step.inputs, context, d)
        stay == [raised |-> TRUE, err |-> NoErr, invoked |-> FALSE,
                 kwargs |-> <<>>, result |-> NoneV, resolved |-> seen,
                 ctx |-> context, data |-> d, uuid |-> u]
    IN  IF ~r.ok THEN [stay EXCEPT !.err = r.err]
        ELSE IF step.function_slug \notin DOMAIN reg
        THEN [stay EXCEPT !.err = UnknownFunctionError(step)]
        ELSE IF ~res.ok
        THEN [stay EXCEPT !.err = StepExecutionError(step, res.exc),
                          !.invoked = TRUE, !.kwargs = final_kwargs]
        ELSE LET o == StoreOutputs(step, step.outputs,
                                   OutputsMap(step, res.val), context, d, u)
             IN  [raised |-> FALSE, err |-> NoErr, invoked |-> TRUE,
                  kwargs |-> final_kwargs, result |-> res.val,
                  resolved |-> seen,
                  ctx |-> o.ctx, data |-> o.data, uuid |-> o.uuid]

NoRet == [returned |-> FALSE, context |-> <<>>]

\* a record of one invocation of user logic
Call(k, step, it) ==
    [idx |-> k, step_id |-> step.step_id, slug |-> step.function_slug,
     kwargs |-> it.kwargs, ok |-> ~it.raised, result |-> it.result]

\* Engine.run is entered: the context is seeded from initial_cells
RunBegin(cs) ==
    /\ pc = "build"
    /\ initial' = cs
    /\ ctx' = SeedContext(cs)
    /\ pc' = "running"
    /\ idx' = 1
    /\ calls' = <<>>
    /\ runs' = runs + 1
    /\ resolved' = <<>>
    /\ UNCHANGED <<registry, steps, cells, data, uuid, err, ret, prev, builderVars,
                   wiringVars, storeVars, catalogVars,
                   contextVars>>

\* what the caller sees of a finished run: whether it returned, and
\* store.resolve of every cell of the returned context
Outcome ==
    [returned |-> pc = "returned",
     values |-> [id \in DOMAIN ret.context |-> Resolve(data, ret.context[id])]]

\* a second call that starts from the context the engine had at the end of
\* the call before, with the initial cells added to it
RunOver_KeepContext(cs) ==
    /\ pc \in {"returned", "raised"}
    /\ runs < MaxRuns
    /\ prev' = Append(prev, Outcome)
    /\ initial' = cs
    /\ ctx' = [id \in DOMAIN ctx \cup {c.id : c \in cs} |->
                  IF id \in {c.id : c \in cs} THEN SeedContext(cs)[id]
                  ELSE ctx[id]]
    /\ pc' = "running"
    /\ idx' = 1
    /\ calls' = <<>>
    /\ err' = NoErr
    /\ ret' = NoRet
    /\ runs' = runs + 1
    /\ resolved' = <<>>
    /\ UNCHANGED <<registry, steps, cells, data, uuid, builderVars, wiringVars,
                   storeVars, catalogVars,
                   contextVars>>

\* Engine.run is entered again, on the same engine and store and the same
\* workflow, after an earlier call returned or raised
RunOver(cs) ==
    /\ pc \in {"returned", "raised"}
    /\ runs < MaxRuns
    /\ prev' = Append(prev, Outcome)
    /\ initial' = cs
    /\ ctx' = SeedContext(cs)
    /\ pc' = "running"
    /\ idx' = 1
    /\ calls' = <<>>
    /\ err' = NoErr
    /\ ret' = NoRet
    /\ runs' = runs + 1
    /\ resolved' = <<>>
    /\ UNCHANGED <<registry, steps, cells, data, uuid, builderVars, wiringVars,
                   storeVars, catalogVars,
                   contextVars>>

\* a loop that records a step's failure and goes on to the next step
RunStep_ContinueAfterFailure ==
    /\ pc = "running"
    /\ idx <= Len(steps)
    /\ LET it == Iteration(steps[idx], registry, ctx, data, uuid) IN
        /\ calls' = IF it.invoked THEN Append(calls, Call(idx, steps[idx], it))
                    ELSE calls
        /\ resolved' = resolved \o it.resolved
        /\ err' = IF it.raised THEN it.err ELSE err
        /\ ctx' = it.ctx
        /\ data' = it.data
        /\ uuid' = it.uuid
        /\ idx' = idx + 1
        /\ UNCHANGED pc
    /\ UNCHANGED <<registry, steps, cells, initial, ret, runs, prev, builderVars,
                   wiringVars, storeVars, catalogVars,
                   contextVars>>

\* a loop that merges the wired values into the step's own config
\* (step.config.update(execution_args)) before the call
RunStep_UpdateConfig ==
    /\ pc = "running"
    /\ idx <= Len(steps)
    /\ LET it == Iteration(steps[idx], registry, ctx, data, uuid) IN
        /\ calls' = IF it.invoked THEN Append(calls, Call(idx, steps[idx], it))
                    ELSE calls
        /\ resolved' = resolved \o it.resolved
        /\ steps' = IF it.invoked THEN [steps EXCEPT ![idx].config = it.kwargs]
                    ELSE steps
        /\ IF it.raised
           THEN /\ pc' = "raised"
                /\ err' = it.err
                /\ UNCHANGED <<ctx, data, uuid, idx>>
           ELSE /\ ctx' = it.ctx
                /\ data' = it.data
                /\ uuid' = it.uuid
                /\ idx' = idx + 1
                /\ UNCHANGED <<pc, err>>
    /\ UNCHANGED <<registry, cells, initial, ret, runs, prev, builderVars,
                   wiringVars, storeVars, catalogVars,
                   contextVars>>

\* a loop that undoes the puts of the run when a step fails: the table is
\* cut back to the uris of the cells the caller holds
RunStep_Rollback ==
    /\ pc = "running"
    /\ idx <= Len(steps)
    /\ LET it == Iteration(steps[idx], registry, ctx, data, uuid) IN
        /\ calls' = IF it.invoked THEN Append(calls, Call(idx, steps[idx], it))
                    ELSE calls
        /\ resolved' = resolved \o it.resolved
        /\ IF it.raised
           THEN /\ pc' = "raised"
                /\ err' = it.err
                /\ data' = [u \in DOMAIN data \cap {c.reference_uri : c \in cells}
                               |-> data[u]]
                /\ UNCHANGED <<ctx, uuid, idx>>
           ELSE /\ ctx' = it.ctx
                /\ data' = it.data
                /\ uuid' = it.uuid
                /\ idx' = idx + 1
                /\ UNCHANGED <<pc, err>>
    /\ UNCHANGED <<registry, steps, cells, initial, ret, runs, prev, builderVars,
                   wiringVars, storeVars, catalogVars,
                   contextVars>>

\* a loop that does not move on after a step: the step runs again
RunStep_Repeat ==
    /\ pc = "running"
    /\ idx <= Len(steps)
    /\ LET it == Iteration(steps[idx], registry, ctx, data, uuid) IN
        /\ calls' = IF it.invoked THEN Append(calls, Call(idx, steps[idx], it))
                    ELSE calls
        /\ resolved' = resolved \o it.resolved
        /\ IF it.raised
           THEN /\ pc' = "raised"
                /\ err' = it.err
                /\ UNCHANGED <<ctx, data, uuid, idx>>
           ELSE /\ ctx' = it.ctx
                /\ data' = it.data
                /\ uuid' = it.uuid
                /\ UNCHANGED <<pc, err, idx>>
    /\ UNCHANGED <<registry, steps, cells, initial, ret, runs, prev, builderVars,
                   wiringVars, storeVars, catalogVars,
                   contextVars>>

\* one iteration of the loop: the step at idx runs, or the run raises
RunStep ==
    /\ pc = "running"
    /\ idx <= Len(steps)
    /\ LET it == Iteration(steps[idx], registry, ctx, data, uuid) IN
        /\ calls' = IF it.invoked THEN Append(calls, Call(idx, steps[idx], it))
                    ELSE calls
        /\ resolved' = resolved \o it.resolved
        /\ IF it.raised
           THEN /\ pc' = "raised"
                /\ err' = it.err
                /\ UNCHANGED <<ctx, data, uuid, idx>>
           ELSE /\ ctx' = it.ctx
                /\ data' = it.data
                /\ uuid' = it.uuid
                /\ idx' = idx + 1
                /\ UNCHANGED <<pc, err>>
    /\ UNCHANGED <<registry, steps, cells, initial, ret, runs, prev, builderVars,
                   wiringVars, storeVars, catalogVars,
                   contextVars>>

\* return context
RunReturn ==
    /\ pc = "running"
    /\ idx > Len(steps)
    /\ pc' = "returned"
    /\ ret' = [returned |-> TRUE, context |-> ctx]
    /\ UNCHANGED <<registry, steps, cells, data, uuid, initial, ctx, idx, err,
                   calls, runs, prev, resolved, builderVars, wiringVars,
                   storeVars, catalogVars,
                   contextVars>>

----------------------------------------------------------------------------
(* WorkflowBuilder *)

NoAlias == ""

NoBErr == [type |-> "", kind |-> "", slug |-> "", arg |-> "", alias |-> ""]

\* ValueError(f"Function '{function_slug}' not found in registry.")
UnknownSlugError(slug) ==
    [type |-> "ValueError", kind |-> "UnknownFunction", slug |-> slug,
     arg |-> "", alias |-> ""]

\* ValueError(f"Input '{arg_name}' uses alias '{arg_val}' which is not
\* defined in this builder.")
UndefinedAliasError(arg_name, alias) ==
    [type |-> "ValueError", kind |-> "UndefinedAlias", slug |-> "",
     arg |-> arg_name, alias |-> alias]

\* TypeError(f"Input '{arg_name}' must be a UUID or a registered Alias
\* string. Got {type(arg_val)}")
InputTypeError(arg_name) ==
    [type |-> "TypeError", kind |-> "TypeMismatch", slug |-> "",
     arg |-> arg_name, alias |-> ""]

\* the values add_step's inputs may hold: a UUID, a string, anything else
UuidArg(id) == [t |-> "uuid", id |-> id, s |-> ""]
AliasArg(a) == [t |-> "str", id |-> NoId, s |-> a]
OtherArg == [t |-> "int", id |-> NoId, s |-> ""]

\* an alias loop that leaves out an input whose alias is not bound
RECURSIVE ResolveAliases_SkipUnbound(_, _, _)
ResolveAliases_SkipUnbound(ins, vs, resolved_inputs) ==
    IF ins = <<>> THEN [err |-> NoBErr, inputs |-> resolved_inputs]
    ELSE LET arg_name == ins[1][1]
             arg_val == ins[1][2]
         IN  IF arg_val.t = "uuid"
             THEN ResolveAliases_SkipUnbound(Tail(ins), vs,
                      Append(resolved_inputs, <<arg_name, arg_val.id>>))
             ELSE IF arg_val.t = "str"
             THEN IF arg_val.s \in DOMAIN vs
                  THEN ResolveAliases_SkipUnbound(Tail(ins), vs,
                           Append(resolved_inputs, <<arg_name, vs[arg_val.s]>>))
                  ELSE ResolveAliases_SkipUnbound(Tail(ins), vs, resolved_inputs)
             ELSE [err |-> InputTypeError(arg_name), inputs |-> resolved_inputs]

\* an alias loop that leaves out the inputs given as UUIDs
RECURSIVE ResolveAliases_DropUuid(_, _, _)
ResolveAliases_DropUuid(ins, vs, resolved_inputs) ==
    IF ins = <<>> THEN [err |-> NoBErr, inputs |-> resolved_inputs]
    ELSE LET arg_name == ins[1][1]
             arg_val == ins[1][2]
         IN  IF arg_val.t = "uuid"
             THEN ResolveAliases_DropUuid(Tail(ins), vs, resolved_inputs)
             ELSE IF arg_val.t = "str"
             THEN IF arg_val.s \in DOMAIN vs
                  THEN ResolveAliases_DropUuid(Tail(ins), vs,
                           Append(resolved_inputs, <<arg_name, vs[arg_val.s]>>))
                  ELSE [err |-> UndefinedAliasError(arg_name, arg_val.s),
                        inputs |-> resolved_inputs]
             ELSE [err |-> InputTypeError(arg_name), inputs |-> resolved_inputs]

\* an alias loop that leaves out an input that is neither UUID nor string
RECURSIVE ResolveAliases_SkipOther(_, _, _)
ResolveAliases_SkipOther(ins, vs, resolved_inputs) ==
    IF ins = <<>> THEN [err |-> NoBErr, inputs |-> resolved_inputs]
    ELSE LET arg_name == ins[1][1]
             arg_val == ins[1][2]
         IN  IF arg_val.t = "uuid"
             THEN ResolveAliases_SkipOther(Tail(ins), vs,
                      Append(resolved_inputs, <<arg_name, arg_val.id>>))
             ELSE IF arg_val.t = "str"
             THEN IF arg_val.s \in DOMAIN vs
                  THEN ResolveAliases_SkipOther(Tail(ins), vs,
                           Append(resolved_inputs, <<arg_name, vs[arg_val.s]>>))
                  ELSE [err |-> UndefinedAliasError(arg_name, arg_val.s),
                        inputs |-> resolved_inputs]
             ELSE ResolveAliases_SkipOther(Tail(ins), vs, resolved_inputs)

\* step 2 of add_step: the loop over inputs.items()
RECURSIVE ResolveAliases(_, _, _)
ResolveAliases(ins, vs, resolved_inputs) ==
    IF ins = <<>> THEN [err |-> NoBErr, inputs |-> resolved_inputs]
    ELSE LET arg_name == ins[1][1]
             arg_val == ins[1][2]
         IN  IF arg_val.t = "uuid"
             THEN ResolveAliases(Tail(ins), vs,
                      Append(resolved_inputs, <<arg_name, arg_val.id>>))
             ELSE IF arg_val.t = "str"
             THEN IF arg_val.s \in DOMAIN vs
                  THEN ResolveAliases(Tail(ins), vs,
                           Append(resolved_inputs, <<arg_name, vs[arg_val.s]>>))
                  ELSE [err |-> UndefinedAliasError(arg_name, arg_val.s),
                        inputs |-> resolved_inputs]
             ELSE [err |-> InputTypeError(arg_name), inputs |-> resolved_inputs]

\* a validation that lets every slug pass
SlugRegistered_Always(reg, slug) == TRUE

\* step 1 of add_step: registry.get(function_slug) is not None
SlugRegistered(reg, slug) == slug \in DOMAIN reg

\* an add_step whose alias table forgets every binding but the new one
AddStepResult_DropAliases(reg, vs, u, slug, inputs, config, output_alias) ==
    LET r == ResolveAliases(inputs, vs, <<>>)
        output_id == u
        step == WorkflowStep(u + 1, slug, config, r.inputs,
                             << <<"return", output_id>> >>)
        failed == [err |-> NoBErr, added |-> <<>>, vars |-> vs, ret |-> NoId,
                   uuid |-> u]
    IN  IF ~SlugRegistered(reg, slug)
        THEN [failed EXCEPT !.err = UnknownSlugError(slug)]
        ELSE IF r.err # NoBErr
        THEN [failed EXCEPT !.err = r.err]
        ELSE [err |-> NoBErr, added |-> <<step>>,
              vars |-> IF output_alias # NoAlias
                       THEN SetItem(<<>>, output_alias, output_id) ELSE vs,
              ret |-> output_id, uuid |-> u + 2]

\* an add_step that keeps the first binding of an alias bound twice
AddStepResult_FirstBindingWins(reg, vs, u, slug, inputs, config, output_alias) ==
    LET r == ResolveAliases(inputs, vs, <<>>)
        output_id == u
        step == WorkflowStep(u + 1, slug, config, r.inputs,
                             << <<"return", output_id>> >>)
        failed == [err |-> NoBErr, added |-> <<>>, vars |-> vs, ret |-> NoId,
                   uuid |-> u]
    IN  IF ~SlugRegistered(reg, slug)
        THEN [failed EXCEPT !.err = UnknownSlugError(slug)]
        ELSE IF r.err # NoBErr
        THEN [failed EXCEPT !.err = r.err]
        ELSE [err |-> NoBErr, added |-> <<step>>,
              vars |-> IF output_alias # NoAlias /\ output_alias \notin DOMAIN vs
                       THEN SetItem(vs, output_alias, output_id) ELSE vs,
              ret |-> output_id, uuid |-> u + 2]

\* WorkflowBuilder.add_step as a value: the exception raised, or the step
\* appended, the alias table after the call and the id returned
AddStepResult(reg, vs, u, slug, inputs, config, output_alias) ==
    LET r == ResolveAliases(inputs, vs, <<>>)
        output_id == u
        step == WorkflowStep(u + 1, slug, config, r.inputs,
                             << <<"return", output_id>> >>)
        failed == [err |-> NoBErr, added |-> <<>>, vars |-> vs, ret |-> NoId,
                   uuid |-> u]
    IN  IF ~SlugRegistered(reg, slug)
        THEN [failed EXCEPT !.err = UnknownSlugError(slug)]
        ELSE IF r.err # NoBErr
        THEN [failed EXCEPT !.err = r.err]
        ELSE [err |-> NoBErr, added |-> <<step>>,
              vars |-> IF output_alias # NoAlias
                       THEN SetItem(vs, output_alias, output_id) ELSE vs,
              ret |-> output_id, uuid |-> u + 2]

\* builder.add_step(function_slug, inputs, config, output_alias)
BuilderAddStep(slug, inputs, config, output_alias) ==
    /\ pc = "build"
    /\ ncalls < MaxCalls
    /\ LET r == AddStepResult(registry, vars, uuid, slug, inputs, config,
                              output_alias)
       IN  /\ steps' = steps \o r.added
           /\ vars' = r.vars
           /\ uuid' = r.uuid
           /\ berr' = r.err
           /\ bret' = r.ret
           /\ aliased' = IF r.ret # NoId /\ output_alias # NoAlias
                         THEN SetItem(aliased, output_alias, r.ret)
                         ELSE aliased
    /\ ncalls' = ncalls + 1
    /\ UNCHANGED <<registry, cells, data, runVars, wiringVars, storeVars, catalogVars,
                   contextVars>>

\* WorkflowBuilder(name): an empty workflow and an empty alias table
BuilderIdle ==
    /\ vars = <<>>
    /\ berr = NoBErr
    /\ bret = NoId
    /\ ncalls = 0
    /\ aliased = <<>>

----------------------------------------------------------------------------
(* The @step decorator and the factory it returns (decorators.py) *)

\* inspect.signature(func).parameters of the decorated functions: name and
\* default value of each parameter, in order.  add is the function of
\* tests/test_steps.py, consumer that of tests/test_functions.py, and
\* dummy_prefix (tests/test_engine.py) stands for a decorated function one
\* of whose parameters has a default.
Param(name) == [name |-> name, has_default |-> FALSE, default |-> NoneV]
ParamDefault(name, v) == [name |-> name, has_default |-> TRUE, default |-> v]
Signature(func) ==
    CASE func = "add" -> <<Param("a"), Param("b")>>
      [] func = "dummy_prefix" ->
            <<Param("text"), ParamDefault("prefix", StrV("Hello "))>>
      [] func = "consumer" -> <<Param("item")>>

\* str(sig.return_annotation), "" when the function has none
ReturnAnnotation(func) ==
    CASE func = "add" -> "<class 'int'>"
      [] func = "dummy_prefix" -> "<class 'str'>"
      [] func = "consumer" -> ""

\* output_contract of step(func)
OutputContract(func) ==
    IF ReturnAnnotation(func) # "" THEN [return |-> ReturnAnnotation(func)]
    ELSE <<>>

\* StepWiring(step, outputs)
StepWiring(step, outputs) == [step |-> step, outputs |-> outputs]

\* isinstance(x, FancyCell), for x a cell or a dict of cells
IsFancyCell(x) == "storage_kind" \in DOMAIN x

\* the arguments a factory may be called with, by Python type
FancyCellArg(cell) == [t |-> "FancyCell", obj |-> cell]
StepWiringArg(w) == [t |-> "StepWiring", obj |-> w]
LiteralArg(v) == [t |-> "literal", obj |-> v]

NoWErr == [type |-> "", kind |-> "", slug |-> "", arg |-> ""]

\* ValueError(f"Ambiguous wiring: Step {slug} received multi-output result
\* for arg '{name}'.")
AmbiguousWiringError(slug, name) ==
    [type |-> "ValueError", kind |-> "AmbiguousWiring", slug |-> slug,
     arg |-> name]

\* the TypeError of sig.bind: a parameter without default is missing, or a
\* keyword names no parameter
BindError(slug) ==
    [type |-> "TypeError", kind |-> "TypeMismatch", slug |-> slug, arg |-> ""]

ParamNames(params) == {params[k].name : k \in 1..Len(params)}

\* sig.bind(**kwargs) succeeds
Binds(params, kwargs) ==
    /\ Names(kwargs) \subseteq ParamNames(params)
    /\ \A k \in 1..Len(params) :
          ~params[k].has_default => params[k].name \in Names(kwargs)

\* bound.arguments after bound.apply_defaults(): in the order of the
\* signature, the argument given or else the parameter's default
RECURSIVE BoundArguments(_, _)
BoundArguments(params, kwargs) ==
    IF params = <<>> THEN <<>>
    ELSE LET p == params[1]
             value == IF p.name \in Names(kwargs) THEN Lookup(kwargs, p.name)
                      ELSE LiteralArg(p.default)
         IN  << <<p.name, value>> >> \o BoundArguments(Tail(params), kwargs)

\* a classification that takes the first cell of a multi-output handle
RECURSIVE ClassifyArguments_PickFirst(_, _, _, _)
ClassifyArguments_PickFirst(slug, arguments, step_inputs, step_config) ==
    IF arguments = <<>>
    THEN [err |-> NoWErr, inputs |-> step_inputs, config |-> step_config]
    ELSE LET name == arguments[1][1]
             value == arguments[1][2]
         IN  IF value.t = "FancyCell"
             THEN ClassifyArguments_PickFirst(slug, Tail(arguments),
                      Append(step_inputs, <<name, value.obj.id>>), step_config)
             ELSE IF value.t = "StepWiring"
             THEN IF IsFancyCell(value.obj.outputs)
                  THEN ClassifyArguments_PickFirst(slug, Tail(arguments),
                           Append(step_inputs, <<name, value.obj.outputs.id>>),
                           step_config)
                  ELSE ClassifyArguments_PickFirst(slug, Tail(arguments),
                           Append(step_inputs,
                                  <<name, value.obj.outputs.first.id>>),
                           step_config)
             ELSE ClassifyArguments_PickFirst(slug, Tail(arguments), step_inputs,
                      SetItem(step_config, name, value.obj))

\* a classification that also records a wired cell's value as configuration
RECURSIVE ClassifyArguments_CellAlsoConfig(_, _, _, _)
ClassifyArguments_CellAlsoConfig(slug, arguments, step_inputs, step_config) ==
    IF arguments = <<>>
    THEN [err |-> NoWErr, inputs |-> step_inputs, config |-> step_config]
    ELSE LET name == arguments[1][1]
             value == arguments[1][2]
         IN  IF value.t = "FancyCell"
             THEN ClassifyArguments_CellAlsoConfig(slug, Tail(arguments),
                      Append(step_inputs, <<name, value.obj.id>>),
                      SetItem(step_config, name, value.obj.value))
             ELSE IF value.t = "StepWiring"
             THEN IF IsFancyCell(value.obj.outputs)
                  THEN ClassifyArguments_CellAlsoConfig(slug, Tail(arguments),
                           Append(step_inputs, <<name, value.obj.outputs.id>>),
                           step_config)
                  ELSE [err |-> AmbiguousWiringError(slug, name),
                        inputs |-> step_inputs, config |-> step_config]
             ELSE ClassifyArguments_CellAlsoConfig(slug, Tail(arguments),
                      step_inputs, SetItem(step_config, name, value.obj))

\* the factory's loop over bound.arguments.items()
RECURSIVE ClassifyArguments(_, _, _, _)
ClassifyArguments(slug, arguments, step_inputs, step_config) ==
    IF arguments = <<>>
    THEN [err |-> NoWErr, inputs |-> step_inputs, config |-> step_config]
    ELSE LET name == arguments[1][1]
             value == arguments[1][2]
         IN  IF value.t = "FancyCell"
             THEN ClassifyArguments(slug, Tail(arguments),
                      Append(step_inputs, <<name, value.obj.id>>), step_config)
             ELSE IF value.t = "StepWiring"
             THEN IF IsFancyCell(value.obj.outputs)
                  THEN ClassifyArguments(slug, Tail(arguments),
                           Append(step_inputs, <<name, value.obj.outputs.id>>),
                           step_config)
                  ELSE [err |-> AmbiguousWiringError(slug, name),
                        inputs |-> step_inputs, config |-> step_config]
             ELSE ClassifyArguments(slug, Tail(arguments), step_inputs,
                      SetItem(step_config, name, value.obj))

NoWiring == StepWiring(WorkflowStep(NoId, "", <<>>, <<>>, <<>>), <<>>)

\* a factory whose output cell takes an id that is not drawn afresh
FactoryResult_FixedOutputId(slug, u, kwargs) ==
    LET failed == [err |-> NoWErr, wiring |-> NoWiring, uuid |-> u]
        c == ClassifyArguments(slug, BoundArguments(Signature(slug), kwargs),
                               <<>>, <<>>)
        type_hint == IF "return" \in DOMAIN OutputContract(slug)
                     THEN OutputContract(slug)["return"] ELSE "Any"
        output_cell == CreatePending(1, slug \o "_out", type_hint)
        new_step == WorkflowStep(u + 1, slug, c.config, c.inputs,
                                 << <<"return", output_cell.id>> >>)
    IN  IF ~Binds(Signature(slug), kwargs)
        THEN [failed EXCEPT !.err = BindError(slug)]
        ELSE IF c.err # NoWErr
        THEN [failed EXCEPT !.err = c.err]
        ELSE [err |-> NoWErr, wiring |-> StepWiring(new_step, output_cell),
              uuid |-> u + 2]

\* factory(**kwargs) of the function decorated under slug, as a value: the
\* exception raised, or the StepWiring returned; u is the next uuid4 value
FactoryResult(slug, u, kwargs) ==
    LET failed == [err |-> NoWErr, wiring |-> NoWiring, uuid |-> u]
        c == ClassifyArguments(slug, BoundArguments(Signature(slug), kwargs),
                               <<>>, <<>>)
        type_hint == IF "return" \in DOMAIN OutputContract(slug)
                     THEN OutputContract(slug)["return"] ELSE "Any"
        output_cell == CreatePending(u, slug \o "_out", type_hint)
        new_step == WorkflowStep(u + 1, slug, c.config, c.inputs,
                                 << <<"return", output_cell.id>> >>)
    IN  IF ~Binds(Signature(slug), kwargs)
        THEN [failed EXCEPT !.err = BindError(slug)]
        ELSE IF c.err # NoWErr
        THEN [failed EXCEPT !.err = c.err]
        ELSE [err |-> NoWErr, wiring |-> StepWiring(new_step, output_cell),
              uuid |-> u + 2]

\* a factory that runs the wrapped function and stores what it returns
Factory_Eager(slug, kwargs) ==
    /\ pc = "build"
    /\ nfactory < MaxFactoryCalls
    /\ LET r == FactoryResult(slug, uuid, kwargs)
           p == Put(data, r.uuid, NoneV, slug \o "_out")
       IN  /\ wirings' = IF r.err = NoWErr THEN Append(wirings, r.wiring)
                         ELSE wirings
           /\ werr' = r.err
           /\ uuid' = p.uuid
           /\ data' = p.data
           /\ calls' = Append(calls, [idx |-> 0, step_id |-> NoId, slug |-> slug,
                                      kwargs |-> <<>>, ok |-> TRUE,
                                      result |-> NoneV])
    /\ nfactory' = nfactory + 1
    /\ UNCHANGED <<registry, steps, cells, initial, ctx, pc, idx, err, ret,
                   runs, prev, resolved, builderVars, storeVars, catalogVars,
                   contextVars>>

\* a call factory(**kwargs) of the function decorated under slug
Factory(slug, kwargs) ==
    /\ pc = "build"
    /\ nfactory < MaxFactoryCalls
    /\ LET r == FactoryResult(slug, uuid, kwargs)
       IN  /\ wirings' = IF r.err = NoWErr THEN Append(wirings, r.wiring)
                         ELSE wirings
           /\ werr' = r.err
           /\ uuid' = r.uuid
    /\ nfactory' = nfactory + 1
    /\ UNCHANGED <<registry, steps, cells, data, runVars, builderVars, storeVars,
                   catalogVars,
                   contextVars>>

\* no factory has been called
WiringIdle ==
    /\ wirings = <<>>
    /\ werr = NoWErr
    /\ nfactory = 0

----------------------------------------------------------------------------
(* Workflow serialization (workflow.py): model_dump_json and               *)
(* model_validate_json of the pydantic models Workflow and WorkflowStep.   *)
(* A JSON document is a tree of JSON values; a UUID field is written as    *)
(* its canonical string and parsed back from it.                           *)

JNull == [t |-> "null", i |-> 0, l |-> <<>>, s |-> "", m |-> {}]
JNumber(n) == [t |-> "number", i |-> n, l |-> <<>>, s |-> "", m |-> {}]
JString(x) == [t |-> "string", i |-> 0, l |-> <<>>, s |-> x, m |-> {}]
JArray(q) == [t |-> "array", i |-> 0, l |-> q, s |-> "", m |-> {}]
JObject(pairs) == [t |-> "object", i |-> 0, l |-> <<>>, s |-> "", m |-> pairs]

\* serialization of a value of a field typed Any: by the value's own type;
\* a list and a tuple are both written as a JSON array
RECURSIVE ToJsonValue(_)
ToJsonValue(v) ==
    CASE v.t = "none" -> JNull
      [] v.t = "int" -> JNumber(v.i)
      [] v.t = "str" -> JString(v.s)
      [] v.t = "list" -> JArray(v.l)
      [] v.t = "tuple" -> JArray(v.l)
      [] v.t = "dict" -> JObject({<<p[1], ToJsonValue(p[2])>> : p \in v.m})

\* validation of a JSON value into a field typed Any: an array becomes a
\* list, an object a dict
RECURSIVE FromJsonValue(_)
FromJsonValue(j) ==
    CASE j.t = "null" -> NoneV
      [] j.t = "number" -> IntV(j.i)
      [] j.t = "string" -> StrV(j.s)
      [] j.t = "array" -> ListV(j.l)
      [] j.t = "object" -> DictV({<<p[1], FromJsonValue(p[2])>> : p \in j.m})

\* str(uuid) and UUID(str); every id in use was drawn below the counter u
UuidToStr(id) == ToString(id)
UuidFromStr(s, u) == CHOOSE id \in 0..u : ToString(id) = s

\* a Dict[str, UUID] field
IdsToJson(pairs) ==
    [k \in 1..Len(pairs) |-> <<pairs[k][1], UuidToStr(pairs[k][2])>>]
IdsFromJson(pairs, u) ==
    [k \in 1..Len(pairs) |-> <<pairs[k][1], UuidFromStr(pairs[k][2], u)>>]

\* a serialization of a step that leaves its inputs out
StepToJson_NoInputs(step) ==
    [step_id |-> UuidToStr(step.step_id),
     function_slug |-> step.function_slug,
     config |-> [name \in DOMAIN step.config |-> ToJsonValue(step.config[name])],
     inputs |-> <<>>,
     outputs |-> IdsToJson(step.outputs)]

\* WorkflowStep as a JSON object
StepToJson(step) ==
    [step_id |-> UuidToStr(step.step_id),
     function_slug |-> step.function_slug,
     config |-> [name \in DOMAIN step.config |-> ToJsonValue(step.config[name])],
     inputs |-> IdsToJson(step.inputs),
     outputs |-> IdsToJson(step.outputs)]

StepFromJson(j, u) ==
    WorkflowStep(UuidFromStr(j.step_id, u), j.function_slug,
                 [name \in DOMAIN j.config |-> FromJsonValue(j.config[name])],
                 IdsFromJson(j.inputs, u), IdsFromJson(j.outputs, u))

\* Workflow(id, name, steps)
Workflow(id, name, step_list) == [id |-> id, name |-> name, steps |-> step_list]

\* Workflow.to_json
to_json(w) ==
    [id |-> UuidToStr(w.id), name |-> w.name,
     steps |-> [k \in 1..Len(w.steps) |-> StepToJson(w.steps[k])]]

\* Workflow.from_json
from_json(j, u) ==
    Workflow(UuidFromStr(j.id, u), j.name,
             [k \in 1..Len(j.steps) |-> StepFromJson(j.steps[k], u)])

----------------------------------------------------------------------------
(* Calls of the store and of the catalog made by the caller itself *)

NoSRes == [store |-> "", cell |-> NoneV, after |-> 0, res |-> Returned(NoneV),
           err |-> NoErr]

\* a second InMemoryStore() exists and is empty; nothing was put or resolved
StoreIdle ==
    /\ other = <<>>
    /\ puts = <<>>
    /\ sres = NoSRes

\* Optional[FancyFunction]: None
Absent == "None"

NoGet == [slug |-> "", entry |-> Absent]

\* no get was made; the catalog holds what was registered into it
CatalogIdle ==
    /\ gres = NoGet
    /\ regd = [x \in DOMAIN registry |-> [entry |-> registry[x], over |-> FALSE]]

\* a register that keeps the entry a slug already has, as dict.setdefault
register_KeepFirst(reg, slug, exe) ==
    IF slug \in DOMAIN reg THEN reg ELSE SetItem(reg, slug, exe)

\* FunctionRegistry.register: self._registry[func_def.slug] = func_def
register(reg, slug, exe) == SetItem(reg, slug, exe)

\* FunctionRegistry.get: self._registry.get(slug)
get(reg, slug) == IF slug \in DOMAIN reg THEN reg[slug] ELSE Absent

\* FunctionRegistry.clear: self._registry.clear()
clear(reg) == <<>>

\* registry.register(ff) by the caller, ff.slug = slug with executable exe
CatalogRegister(slug, exe) ==
    /\ pc # "running"
    /\ registry' = register(registry, slug, exe)
    /\ regd' = SetItem(regd, slug, [entry |-> exe, over |-> slug \in DOMAIN registry])
    /\ UNCHANGED <<steps, cells, data, uuid, runVars, builderVars, wiringVars,
                   storeVars, gres, contextVars>>

\* registry.clear() by the caller
CatalogClear ==
    /\ pc # "running"
    /\ registry' = clear(registry)
    /\ regd' = <<>>
    /\ UNCHANGED <<steps, cells, data, uuid, runVars, builderVars, wiringVars,
                   storeVars, gres, contextVars>>

\* a get that takes the entry out of the table, as dict.pop
CatalogGet_Pop(slug) ==
    /\ pc # "running"
    /\ gres' = [slug |-> slug, entry |-> get(registry, slug)]
    /\ registry' = [x \in DOMAIN registry \ {slug} |-> registry[x]]
    /\ UNCHANGED <<steps, cells, data, uuid, runVars, builderVars, wiringVars,
                   storeVars, regd, contextVars>>

\* registry.get(slug) by the caller
CatalogGet(slug) ==
    /\ pc # "running"
    /\ gres' = [slug |-> slug, entry |-> get(registry, slug)]
    /\ UNCHANGED <<registry, steps, cells, data, uuid, runVars, builderVars,
                   wiringVars, storeVars, regd, contextVars>>

----------------------------------------------------------------------------
(* The Workflow context manager (workflow.py).  Workflow is a pydantic     *)
(* BaseModel and _context_stack an annotated attribute whose name starts   *)
(* with an underscore: pydantic takes it out of the class namespace as a   *)
(* private attribute, and Workflow._context_stack, read on the class as    *)
(* the three methods do, is the ModelPrivateAttr descriptor that wraps the *)
(* default list.  The descriptor is truthy, has no append and no pop and   *)
(* is not subscriptable.                                                   *)

NoCm == [op |-> "", wf |-> "", exc |-> "", val |-> Absent]

\* no workflow was entered: the default list is empty
ContextIdle ==
    /\ stack = <<>>
    /\ cm = NoCm

\* w.__enter__(), as `with w:` calls it: Workflow._context_stack.append(self)
\* raises AttributeError, the list is not touched and self is not returned
WorkflowEnter(w) ==
    /\ pc = "build"
    /\ cm' = [op |-> "__enter__", wf |-> w, exc |-> "AttributeError",
              val |-> Absent]
    /\ UNCHANGED <<registry, steps, cells, data, uuid, runVars, builderVars,
                   wiringVars, storeVars, catalogVars, stack>>

\* w.__exit__(None, None, None): the descriptor is truthy, so the branch is
\* taken and Workflow._context_stack.pop() raises AttributeError
WorkflowExit(w) ==
    /\ pc = "build"
    /\ cm' = [op |-> "__exit__", wf |-> w, exc |-> "AttributeError",
              val |-> Absent]
    /\ UNCHANGED <<registry, steps, cells, data, uuid, runVars, builderVars,
                   wiringVars, storeVars, catalogVars, stack>>

\* Workflow.get_current(): the descriptor is truthy, so the branch is taken
\* and cls._context_stack[-1] raises TypeError
WorkflowGetCurrent ==
    /\ pc = "build"
    /\ cm' = [op |-> "get_current", wf |-> "", exc |-> "TypeError",
              val |-> Absent]
    /\ UNCHANGED <<registry, steps, cells, data, uuid, runVars, builderVars,
                   wiringVars, storeVars, catalogVars, stack>>

----------------------------------------------------------------------------
(* Workflow construction by hand, as tests/test_engine.py does *)

\* Workflow.add_step; u is the uuid counter after the step was constructed
WorkflowAddStep(step, u) ==
    /\ pc = "build"
    /\ steps' = Append(steps, step)
    /\ uuid' = u
    /\ UNCHANGED <<registry, cells, data, runVars, builderVars, wiringVars,
                   storeVars, catalogVars,
                   contextVars>>

\* the output ids of the steps added so far
OutputIds == UNION {Ids(steps[k].outputs) : k \in 1..Len(steps)}

----------------------------------------------------------------------------
(* Specification Spec: the engine on hand-built workflows over the catalog *)
(* of tests/test_engine.py                                                 *)

\* the clean_registry fixture
EngineCatalog ==
    [s \in {"math.add", "str.prefix"} |->
        IF s = "math.add" THEN "dummy_add" ELSE "dummy_prefix"]

\* cell_text = store.put("World", "text_in") on the engine's store
TextPut == Put(<<>>, 1, StrV("World"), "text_in")
\* a cell that another store's put returned
StrayPut == Put(<<>>, TextPut.uuid, StrV("Stray"), "stray_in")

EngineSlugs == {"str.prefix", "missing_func"}
EngineConfigs ==
    {<<>>, [prefix |-> StrV("So Fancy, ")], [text |-> StrV("Bob")]}
\* no wired input, or text wired to a cell the caller holds or to an
\* earlier step's output, or text wired to the other store's cell and
\* prefix to the engine's store's cell
EngineInputs ==
    {<<>>} \cup {<< <<"text", id>> >> : id \in {c.id : c \in cells} \cup OutputIds}
        \cup {<< <<"text", StrayPut.cell.id>>, <<"prefix", TextPut.cell.id>> >>}

EngineInit ==
    /\ registry = EngineCatalog
    /\ steps = <<>>
    /\ cells = {TextPut.cell, StrayPut.cell}
    /\ data = TextPut.data
    /\ uuid = StrayPut.uuid
    /\ initial = {}
    /\ ctx = <<>>
    /\ pc = "build"
    /\ idx = 0
    /\ err = NoErr
    /\ ret = NoRet
    /\ calls = <<>>
    /\ runs = 0
    /\ prev = <<>>
    /\ resolved = <<>>
    /\ BuilderIdle
    /\ WiringIdle
    /\ StoreIdle
    /\ CatalogIdle
    /\ ContextIdle

\* cell_id = uuid4(); step = WorkflowStep(..., outputs={"return": cell_id});
\* workflow.add_step(step)
AddEngineStep ==
    /\ Len(steps) < MaxSteps
    /\ \E slug \in EngineSlugs, config \in EngineConfigs, inputs \in EngineInputs :
          WorkflowAddStep(WorkflowStep(uuid + 1, slug, config, inputs,
                                       << <<"return", uuid>> >>), uuid + 2)

\* engine.run(workflow, initial_cells=...)
EngineRun == \E cs \in SUBSET cells : RunBegin(cs)

Next == AddEngineStep \/ EngineRun \/ RunStep \/ RunReturn

Spec == EngineInit /\ [][Next]_allVars

----------------------------------------------------------------------------
(* Specification SpecContext: workflows entered, left and asked for as     *)
(* docs/dev_notes/workflow_construction_proposal.py uses them, around the  *)
(* steps added to the workflow by hand                                     *)

\* the names of the workflows the caller made
ContextWorkflows == {"YouTube Analysis", "Inner"}

EnterCall == \E w \in ContextWorkflows : WorkflowEnter(w)
ExitCall == \E w \in ContextWorkflows : WorkflowExit(w)

ContextNext == EnterCall \/ ExitCall \/ WorkflowGetCurrent \/ AddEngineStep

SpecContext == EngineInit /\ [][ContextNext]_allVars

----------------------------------------------------------------------------
(* Specification SpecChain: the number pipeline of                         *)
(* tests/test_example_numbers.py, run twice, each time on a fresh store    *)

\* the @step decorators register each function under its own name
ChainCatalog ==
    [s \in {"filter_evens", "square_numbers", "sum_numbers"} |-> s]

ChainSlugs == DOMAIN ChainCatalog

\* user_input: [1, ..., n]
InputLists == {[k \in 1..n |-> k] : n \in 0..MaxLen}

\* input_cell = FancyCell.create_value(user_input, alias="Raw Numbers")
InputCell(q) == CreateValue(1, ListV(q), "Raw Numbers", "Any")

ChainInit ==
    /\ registry = ChainCatalog
    /\ steps = <<>>
    /\ cells \in {{InputCell(q)} : q \in InputLists}
    /\ data = <<>>
    /\ uuid = 2
    /\ initial = {}
    /\ ctx = <<>>
    /\ pc = "build"
    /\ idx = 0
    /\ err = NoErr
    /\ ret = NoRet
    /\ calls = <<>>
    /\ runs = 0
    /\ prev = <<>>
    /\ resolved = <<>>
    /\ BuilderIdle
    /\ WiringIdle
    /\ StoreIdle
    /\ CatalogIdle
    /\ ContextIdle

\* the number of square_numbers steps in the workflow (Python's integers
\* are unbounded, the model checker's are not: MaxSquares keeps the values
\* in range)
Squarings ==
    Cardinality({k \in 1..Len(steps) : steps[k].function_slug = "square_numbers"})

\* a step with nums wired to the input cell or to an earlier step's output
\* and a fresh output id, appended to the workflow
AddChainStep ==
    /\ Len(steps) < MaxChain
    /\ \E slug \in ChainSlugs, id \in {c.id : c \in cells} \cup OutputIds :
          /\ slug = "square_numbers" => Squarings < MaxSquares
          /\ WorkflowAddStep(WorkflowStep(uuid + 1, slug, <<>>, << <<"nums", id>> >>,
                                       << <<"return", uuid>> >>), uuid + 2)

\* context = engine.run(workflow, initial_cells=[input_cell])
ChainRun == \E cs \in SUBSET cells : RunBegin(cs)

\* the same workflow and initial cells run again: Engine(InMemoryStore()).run
RunAgain ==
    /\ pc \in {"returned", "raised"}
    /\ runs < MaxRuns
    /\ prev' = Append(prev, Outcome)
    /\ data' = <<>>
    /\ ctx' = SeedContext(initial)
    /\ pc' = "running"
    /\ idx' = 1
    /\ calls' = <<>>
    /\ err' = NoErr
    /\ ret' = NoRet
    /\ runs' = runs + 1
    /\ resolved' = <<>>
    /\ UNCHANGED <<registry, steps, cells, uuid, initial, builderVars, wiringVars,
                   storeVars, catalogVars,
                   contextVars>>

ChainNext == AddChainStep \/ ChainRun \/ RunStep \/ RunReturn \/ RunAgain

SpecChain == ChainInit /\ [][ChainNext]_allVars

----------------------------------------------------------------------------
(* Specification SpecBuilder: WorkflowBuilder.add_step over the catalog of *)
(* tests/test_builder.py                                                   *)

\* the setup_registry fixture
BuilderCatalog ==
    [s \in {"add", "len"} |-> IF s = "add" THEN "func_add" ELSE "func_str_len"]

BuilderSlugs == {"add", "missing_func"}
BuilderAliases == {"sum1", "final"}
\* the cell the caller holds and will pass to the engine as initial cell
BuilderCell == CreateValue(1, IntV(10), "A", "int")
\* the id of the builder's workflow: Workflow(name=name) draws it
BuilderWorkflowId == 2
\* a UUID the caller made with uuid4() and that no cell carries
StrayId == 3
\* an input is an alias, a UUID (of the caller's cell, of the output of a
\* step added before, or of nothing) or a value of another type
BuilderArgs ==
    {AliasArg(a) : a \in BuilderAliases}
        \cup {UuidArg(BuilderCell.id), UuidArg(StrayId), OtherArg}
        \cup {UuidArg(i) : i \in OutputIds}
BuilderInputs ==
    {<<>>} \cup {<< <<"a", x>> >> : x \in BuilderArgs}
           \cup {<< <<"a", x>>, <<"b", y>> >> :
                    x \in BuilderArgs, y \in {AliasArg("final"), OtherArg}}
BuilderConfigs == {<<>>, [b |-> IntV(10)], [b |-> TupleV(<<5, 5>>)]}

BuilderInit ==
    /\ registry = BuilderCatalog
    /\ steps = <<>>
    /\ cells = {BuilderCell}
    /\ data = <<>>
    /\ uuid = 4
    /\ initial = {}
    /\ ctx = <<>>
    /\ pc = "build"
    /\ idx = 0
    /\ err = NoErr
    /\ ret = NoRet
    /\ calls = <<>>
    /\ runs = 0
    /\ prev = <<>>
    /\ resolved = <<>>
    /\ BuilderIdle
    /\ WiringIdle
    /\ StoreIdle
    /\ CatalogIdle
    /\ ContextIdle

\* the calls made, as <<function_slug, inputs, config, output_alias>>: a
\* registered slug without config, with every input and every alias; with
\* a config, chained as test_builder_chaining does or not; with two
\* inputs; and an unregistered slug
BuilderCalls ==
    {<<"add", inputs, <<>>, output_alias>> :
        inputs \in {i \in BuilderInputs : Len(i) < 2},
        output_alias \in BuilderAliases \cup {NoAlias}}
    \cup {<<"add", inputs, config, output_alias>> :
             inputs \in {<<>>, << <<"a", AliasArg("sum1")>> >>},
             config \in BuilderConfigs \ {<<>>},
             output_alias \in {NoAlias, "final"}}
    \cup {<<"add", inputs, <<>>, NoAlias>> :
             inputs \in {i \in BuilderInputs : Len(i) = 2}}
    \cup {<<slug, inputs, <<>>, output_alias>> :
             slug \in BuilderSlugs \ DOMAIN BuilderCatalog,
             inputs \in {<<>>, << <<"a", AliasArg("sum1")>> >>,
                         << <<"a", UuidArg(BuilderCell.id)>> >>,
                         << <<"a", OtherArg>> >>},
             output_alias \in {NoAlias, "sum1"}}

AddStep ==
    \E c \in BuilderCalls : BuilderAddStep(c[1], c[2], c[3], c[4])

BuilderNext == AddStep

SpecBuilder == BuilderInit /\ [][BuilderNext]_allVars

----------------------------------------------------------------------------
(* Specification SpecWiring: calls of the factories of @step-decorated      *)
(* functions, as tests/test_functions.py and tests/test_steps.py make them  *)

\* the catalog after the functions were decorated: registry.register(ff)
\* under slug = func.__name__
WiringCatalog == [s \in {"add", "dummy_prefix", "consumer"} |-> s]

\* cell = FancyCell.create_value("Hello", "Greeting")
WiringCell == CreateValue(1, StrV("Hello"), "Greeting", "Any")

\* a handle made by hand whose outputs are a dict of two cells
MultiWiring ==
    StepWiring(WorkflowStep(4, "add", <<>>, <<>>,
                            << <<"first", 2>>, <<"second", 3>> >>),
               [first |-> CreatePending(2, "add_out", "Any"),
                second |-> CreatePending(3, "add_out", "Any")])

\* an argument is a cell, a literal, the multi-output handle or a handle an
\* earlier factory call returned
WiringArgs ==
    {FancyCellArg(WiringCell), LiteralArg(IntV(2)), StepWiringArg(MultiWiring)}
        \cup {StepWiringArg(wirings[k]) : k \in 1..Len(wirings)}

\* the keyword arguments of the calls, per decorated function
WiringKwargs(slug) ==
    CASE slug = "add" ->
            {<< <<"a", x>>, <<"b", y>> >> :
                x \in WiringArgs,
                y \in {LiteralArg(IntV(2)), StepWiringArg(MultiWiring),
                       FancyCellArg(WiringCell)}}
            \cup {<< <<"a", x>> >> : x \in WiringArgs}
            \cup {<< <<"b", LiteralArg(IntV(2))>>, <<"a", FancyCellArg(WiringCell)>> >>}
      [] slug = "dummy_prefix" ->
            {<< <<"text", x>> >> : x \in WiringArgs}
            \cup {<< <<"text", x>>, <<"prefix", LiteralArg(StrV("So Fancy, "))>> >> :
                     x \in WiringArgs}
      [] slug = "consumer" ->
            {<< <<"item", x>> >> : x \in WiringArgs}

WiringInit ==
    /\ registry = WiringCatalog
    /\ steps = <<>>
    /\ cells = {WiringCell}
    /\ data = <<>>
    /\ uuid = 5
    /\ initial = {}
    /\ ctx = <<>>
    /\ pc = "build"
    /\ idx = 0
    /\ err = NoErr
    /\ ret = NoRet
    /\ calls = <<>>
    /\ runs = 0
    /\ prev = <<>>
    /\ resolved = <<>>
    /\ BuilderIdle
    /\ WiringIdle
    /\ StoreIdle
    /\ CatalogIdle
    /\ ContextIdle

FactoryCall ==
    \E slug \in DOMAIN WiringCatalog :
        \E kwargs \in WiringKwargs(slug) : Factory(slug, kwargs)

WiringNext == FactoryCall

SpecWiring == WiringInit /\ [][WiringNext]_allVars

----------------------------------------------------------------------------
(* Specification SpecStore: put and resolve on two stores, as               *)
(* tests/test_core_milestone_1.py::test_store_put_resolve makes them        *)

MaxPuts == 3

StoreNames == {"data", "other"}

\* the table of a store
Table(s) == IF s = "data" THEN data ELSE other

\* data = {"a": 1, "b": 2} of the test, and values of other types
StoreValues ==
    {DictV({<<"a", IntV(1)>>, <<"b", IntV(2)>>}), IntV(100), StrV("World")}

\* FancyCell(alias=..., storage_kind=REFERENCE): a reference without a uri
DanglingCell == CreateReference(1, NoUri, "dangling", "Any")
\* cell = FancyCell.create_value(100, "My Number")
NumberCell == CreateValue(2, IntV(100), "My Number", "Any")

StoreInit ==
    /\ registry = <<>>
    /\ steps = <<>>
    /\ cells = {DanglingCell, NumberCell}
    /\ data = <<>>
    /\ uuid = 3
    /\ initial = {}
    /\ ctx = <<>>
    /\ pc = "build"
    /\ idx = 0
    /\ err = NoErr
    /\ ret = NoRet
    /\ calls = <<>>
    /\ runs = 0
    /\ prev = <<>>
    /\ resolved = <<>>
    /\ BuilderIdle
    /\ WiringIdle
    /\ StoreIdle
    /\ CatalogIdle
    /\ ContextIdle

\* cell = store.put(value, alias) on the store s; the caller keeps the cell
StorePut(s, value, alias) ==
    /\ Len(puts) < MaxPuts
    /\ LET p == Put(Table(s), uuid, value, alias) IN
        /\ data' = IF s = "data" THEN p.data ELSE data
        /\ other' = IF s = "other" THEN p.data ELSE other
        /\ uuid' = p.uuid
        /\ cells' = cells \cup {p.cell}
        /\ puts' = Append(puts, [store |-> s, value |-> value, cell |-> p.cell,
                                 before |-> DOMAIN Table(s)])
    /\ UNCHANGED <<registry, steps, runVars, builderVars, wiringVars, sres,
                   catalogVars,
                   contextVars>>

\* store.resolve(cell) on the store s, for a cell the caller holds
StoreResolve(s, cell) ==
    /\ LET r == Resolve(Table(s), cell) IN
        sres' = [store |-> s, cell |-> cell, after |-> Len(puts), res |-> r,
                 err |-> IF r.ok THEN NoErr
                         ELSE DataNotFoundError(cell.reference_uri)]
    /\ UNCHANGED <<registry, steps, cells, data, uuid, runVars, builderVars,
                   wiringVars, other, puts, catalogVars,
                   contextVars>>

PutCall == \E s \in StoreNames, value \in StoreValues : StorePut(s, value, "My Dict")

ResolveCall == \E s \in StoreNames, cell \in cells : StoreResolve(s, cell)

StoreNext == PutCall \/ ResolveCall

SpecStore == StoreInit /\ [][StoreNext]_allVars

----------------------------------------------------------------------------
(* Specification SpecOutputs: the engine on hand-built steps that declare   *)
(* outputs under other names than "return", as the steps of                 *)
(* docs/dev_notes/strategies_to_serialize_this_workflow.py do, over logic   *)
(* that returns a dict or a string                                          *)

OutputsCatalog ==
    [s \in {"extract_metadata", "str.prefix", "len"} |->
        CASE s = "extract_metadata" -> "extract_metadata"
          [] s = "str.prefix" -> "dummy_prefix"
          [] OTHER -> "func_str_len"]

\* FancyCell.create_value("v1", "Video")
UrlCell == CreateValue(1, StrV("v1"), "Video", "Any")
\* the placeholder cell of a factory call: storage_kind PENDING, no value
PendingCell == CreatePending(2, "extract_metadata_out", "Any")
\* FancyCell.create_composite([id1, id2], "Group") over the two cells' ids
GroupCell == CreateComposite(3, ListV(<<UrlCell.id, PendingCell.id>>), "Group")

OutputsInit ==
    /\ registry = OutputsCatalog
    /\ steps = <<>>
    /\ cells = {UrlCell, PendingCell, GroupCell}
    /\ data = <<>>
    /\ uuid = 4
    /\ initial = {}
    /\ ctx = <<>>
    /\ pc = "build"
    /\ idx = 0
    /\ err = NoErr
    /\ ret = NoRet
    /\ calls = <<>>
    /\ runs = 0
    /\ prev = <<>>
    /\ resolved = <<>>
    /\ BuilderIdle
    /\ WiringIdle
    /\ StoreIdle
    /\ CatalogIdle
    /\ ContextIdle

\* the steps added, as <<function_slug, inputs, outputs>>, with u and
\* u + 1 two fresh ids: extract_metadata on the video cell with each shape
\* of declared outputs, and on the placeholder cell; str.prefix on a cell
\* the caller holds or an earlier output; str.prefix with a second
\* declared output, or with one declared output that is not "return";
\* str.prefix whose output id is the id of a cell the caller holds or of
\* an earlier output; and len on the composite cell
OutputsSteps(u) ==
    {<<"extract_metadata", << <<"video_url", UrlCell.id>> >>, outputs>> :
        outputs \in {<< <<"return", u>> >>,
                     << <<"title", u>>, <<"duration", u + 1>> >>,
                     << <<"title", u>>, <<"return", u + 1>> >>,
                     << <<"text", u>> >>}}
    \cup {<<"extract_metadata", << <<"video_url", PendingCell.id>> >>,
            << <<"title", u>>, <<"duration", u + 1>> >> >>}
    \cup {<<"str.prefix", << <<"text", id>> >>, << <<"return", u>> >> >> :
             id \in {c.id : c \in cells} \cup OutputIds}
    \cup {<<"str.prefix", << <<"text", UrlCell.id>> >>,
            << <<"title", u>>, <<"return", u + 1>> >> >>}
    \cup {<<"str.prefix", << <<"text", UrlCell.id>> >>, << <<"title", u>> >> >>}
    \cup {<<"str.prefix", << <<"text", UrlCell.id>> >>, << <<"return", id>> >> >> :
             id \in {c.id : c \in cells} \cup OutputIds}
    \cup {<<"len", << <<"text", GroupCell.id>> >>, << <<"return", u>> >> >>}

\* a last step that reads an earlier output
ReaderSteps(u) ==
    {<<"str.prefix", << <<"text", id>> >>, << <<"return", u>> >> >> : id \in OutputIds}

\* step = WorkflowStep(function_slug=..., inputs=..., outputs=...);
\* workflow.add_step(step)
AddOutputsStep ==
    /\ Len(steps) < MaxSteps
    /\ \E c \in OutputsSteps(uuid) :
          WorkflowAddStep(WorkflowStep(uuid + 2, c[1], <<>>, c[2], c[3]), uuid + 3)

\* one more step after those, wired to an earlier output
AddReaderStep ==
    /\ Len(steps) = MaxSteps
    /\ \E c \in ReaderSteps(uuid) :
          WorkflowAddStep(WorkflowStep(uuid + 2, c[1], <<>>, c[2], c[3]), uuid + 3)

\* engine.run(workflow, initial_cells=...)
OutputsRun == \E cs \in SUBSET cells : RunBegin(cs)

\* engine.run(workflow, initial_cells=...) once more: with nothing, with the
\* video cell, or with a cell out of the context the call before returned
OutputsRerun ==
    \E cs \in {{}, {UrlCell}}
               \cup {{ret.context[id]} : id \in DOMAIN ret.context \ {c.id : c \in cells}} :
        RunOver(cs)

OutputsNext ==
    AddOutputsStep \/ AddReaderStep \/ OutputsRun \/ OutputsRerun \/ RunStep \/ RunReturn

SpecOutputs == OutputsInit /\ [][OutputsNext]_allVars

----------------------------------------------------------------------------
(* Specification SpecCatalog: the catalog registered into, read and        *)
(* cleared as the fixtures of tests/test_builder.py do, between the calls  *)
(* of a builder, of a factory and of the engine                            *)

MaxCatalogCalls == 1

CatalogSlugs == {"add", "len"}
\* the executables of tests/test_builder.py
CatalogExecutables == {"func_add", "func_str_len"}

\* registry.clear() of the fixture, a builder, a store and a cell
CatalogInit ==
    /\ registry = <<>>
    /\ steps = <<>>
    /\ cells = {BuilderCell}
    /\ data = <<>>
    /\ uuid = 4
    /\ initial = {}
    /\ ctx = <<>>
    /\ pc = "build"
    /\ idx = 0
    /\ err = NoErr
    /\ ret = NoRet
    /\ calls = <<>>
    /\ runs = 0
    /\ prev = <<>>
    /\ resolved = <<>>
    /\ BuilderIdle
    /\ WiringIdle
    /\ StoreIdle
    /\ CatalogIdle
    /\ ContextIdle

RegisterCall ==
    \E slug \in CatalogSlugs, exe \in CatalogExecutables : CatalogRegister(slug, exe)

GetCall == \E slug \in CatalogSlugs \cup {"missing_func"} : CatalogGet(slug)

\* builder.add_step("add", inputs={"a": cell.id}, config={"b": 10})
CatalogAddStep ==
    /\ ncalls < MaxCatalogCalls
    /\ BuilderAddStep("add", << <<"a", UuidArg(BuilderCell.id)>> >>,
                      [b |-> IntV(10)], NoAlias)

\* add(a=cell, b=2) of a function decorated as add
CatalogFactoryCall ==
    /\ nfactory < MaxCatalogCalls
    /\ Factory("add", << <<"a", FancyCellArg(BuilderCell)>>,
                         <<"b", LiteralArg(IntV(2))>> >>)

\* engine.run(workflow, initial_cells=[cell])
CatalogRun == RunBegin(cells)

CatalogNext ==
    \/ RegisterCall
    \/ CatalogClear
    \/ GetCall
    \/ CatalogAddStep
    \/ CatalogFactoryCall
    \/ CatalogRun
    \/ RunStep
    \/ RunReturn

SpecCatalog == CatalogInit /\ [][CatalogNext]_allVars

----------------------------------------------------------------------------
(* Properties of Engine.run, checked under Spec *)

Finished == pc \in {"returned", "raised"}

\* the value a cell stands for, read off the cell and the store's table
Held(d, cell) ==
    IF cell.storage_kind = "REFERENCE" THEN d[cell.reference_uri] ELSE cell.value

\* the cell ids available to step k by the graph alone: the initial cells
\* and the outputs of the steps before k
Supplied(k) == {c.id : c \in initial} \cup UNION {Ids(steps[j].outputs) : j \in 1..(k - 1)}
Unsupplied(k) == {id \in Ids(steps[k].inputs) : id \notin Supplied(k)}
HasUnsupplied == \E k \in 1..Len(steps) : Unsupplied(k) # {}
FirstUnsupplied ==
    CHOOSE k \in 1..Len(steps) :
        Unsupplied(k) # {} /\ \A j \in 1..(k - 1) : Unsupplied(j) = {}

\* C1: identity preservation.  When Engine.run has returned, every output
\* name a step declared and its result supplied has, under the id
\* pre-allocated in step.outputs, a cell in the returned context whose own
\* id is that pre-allocated id (not the id the store gave the cell in put).
C1_IdentityPreserved ==
    pc = "returned" =>
        \A n \in 1..Len(calls) :
            LET step == steps[calls[n].idx]
                supplied == DOMAIN OutputsMap(step, calls[n].result)
            IN  \A k \in 1..Len(step.outputs) :
                    step.outputs[k][1] \in supplied =>
                        /\ step.outputs[k][2] \in DOMAIN ret.context
                        /\ ret.context[step.outputs[k][2]].id = step.outputs[k][2]

C1_Witness ==
    /\ pc = "returned"
    /\ Len(steps) = 2
    /\ Len(calls) = 2
    /\ \A k \in 1..2 :
          ret.context[steps[k].outputs[1][2]].storage_kind = "REFERENCE"

\* the position in step k's inputs of the first id that nothing supplies
FirstUnsuppliedInput(k) ==
    CHOOSE j \in 1..Len(steps[k].inputs) :
        /\ steps[k].inputs[j][2] \notin Supplied(k)
        /\ \A i \in 1..(j - 1) : steps[k].inputs[i][2] \in Supplied(k)

\* the inputs of step k wired before position j are in the context and,
\* when references, have their uri in the store's table
ResolveBefore(k, j) ==
    \A i \in 1..(j - 1) :
        LET id == steps[k].inputs[i][2] IN
        /\ id \in DOMAIN ctx
        /\ ctx[id].storage_kind = "REFERENCE" =>
               ctx[id].reference_uri \in DOMAIN data

\* C2 as stated: a run of a workflow in which some step has an input id
\* that neither the initial cells nor an earlier step's output supplies
\* fails with the missing-input error at the first such step, and the
\* logic of that step and of the later steps is not invoked
C2_MissingInputError ==
    (HasUnsupplied /\ Finished) =>
        LET k == FirstUnsupplied IN
        /\ pc = "raised"
        /\ idx = k
        /\ err.kind = "MissingInputCell"
        /\ err.step_id = steps[k].step_id
        /\ \A n \in 1..Len(calls) : calls[n].idx < k

\* C2, amended: a step with an input id that neither the initial cells
\* nor an earlier step's output supplies makes the run fail, and at no
\* time is the logic of that step or of a later step invoked; when the
\* run gets to the first such step it fails there, with the missing-input
\* error naming that step and the first such id when the inputs wired
\* before that id resolve, and with the data-not-found error otherwise
C2_MissingInputFails ==
    (runs > 0 /\ HasUnsupplied) =>
        LET k == FirstUnsupplied IN
        /\ \A n \in 1..Len(calls) : calls[n].idx < k
        /\ Finished =>
              /\ pc = "raised"
              /\ idx <= k
              /\ idx = k =>
                    LET j == FirstUnsuppliedInput(k) IN
                    IF ResolveBefore(k, j)
                    THEN err = MissingInputError(steps[k], steps[k].inputs[j][2])
                    ELSE err.kind = "DataNotFound"

C2_Witness ==
    /\ pc = "raised"
    /\ err.kind = "MissingInputCell"
    /\ idx = 2
    /\ Len(calls) = 1
    /\ calls[1].ok

\* The state of a failed run: the error is one of the four run-time
\* errors, nothing has been returned, every invocation before the failing
\* step succeeded and happened once, and no step after the failing one was
\* invoked.
C3_FailureState ==
    /\ err # NoErr => pc = "raised"
    /\ pc = "raised" =>
          /\ err.kind \in {"MissingInputCell", "UnknownFunction",
                           "DataNotFound", "StepExecutionError"}
          /\ ret = NoRet
          /\ \A n \in 1..Len(calls) :
                /\ calls[n].idx = n
                /\ calls[n].idx <= idx
                /\ calls[n].idx < idx => calls[n].ok
                /\ calls[n].idx = idx => ~calls[n].ok
          /\ (err.kind = "StepExecutionError") = (Len(calls) = idx)

\* C3: a run that fails stops at the first failure.  In the state after
\* the failure the error is one of the four run-time errors, nothing has
\* been returned, every invocation before the failing step succeeded and
\* happened once, no step after the failing one was invoked; and from then
\* on the run does nothing more (no later step, no retry, no return).
C3_AbortsAtFirstFailure ==
    /\ []C3_FailureState
    /\ [][pc = "raised" => UNCHANGED <<pc, idx, err, ret, calls, ctx, data>>]_allVars

C3_Witness ==
    /\ pc = "raised"
    /\ err.kind = "DataNotFound"
    /\ Len(steps) = 2
    /\ idx = 1

\* C4: an exception raised by a step's logic is re-raised as a
\* step-execution error that carries the step id, the slug and the cause.
C4_ErrorCarriesStepId ==
    (pc = "raised" /\ err.kind = "StepExecutionError") =>
        /\ err.type = "RuntimeError"
        /\ err.step_id = steps[idx].step_id
        /\ err.slug = steps[idx].function_slug
        /\ err.cause # ""

\* C6: config precedence.  For a parameter that a step supplies both by a
\* wired input and by a config entry, the logic is invoked with the config
\* value.
C6_ConfigPrecedence ==
    \A n \in 1..Len(calls) :
        LET step == steps[calls[n].idx] IN
        \A p \in Names(step.inputs) \cap DOMAIN step.config :
            /\ p \in DOMAIN calls[n].kwargs
            /\ calls[n].kwargs[p] = step.config[p]

C6_Witness ==
    \E n \in 1..Len(calls) :
        LET step == steps[calls[n].idx] IN
        /\ "text" \in Names(step.inputs) \cap DOMAIN step.config
        /\ Held(data, ctx[Lookup(step.inputs, "text")]) = StrV("World")
        /\ calls[n].kwargs["text"] = StrV("Bob")
        /\ calls[n].result = StrV("Hello Bob")

\* C7: a step that supplies one parameter by a wired input and another by
\* config has its logic invoked with both, the resolved value of the wired
\* cell and the config literal; text wired to "World" with config prefix
\* "So Fancy, " leaves "So Fancy, World" at the step's output id.
C7_InputsAndConfig ==
    \A n \in 1..Len(calls) :
        LET step == steps[calls[n].idx] IN
        (Names(step.inputs) # {} /\ DOMAIN step.config # {}
            /\ Names(step.inputs) \cap DOMAIN step.config = {}) =>
            /\ DOMAIN calls[n].kwargs = Names(step.inputs) \cup DOMAIN step.config
            /\ \A p \in DOMAIN step.config : calls[n].kwargs[p] = step.config[p]
            /\ \A p \in Names(step.inputs) :
                  calls[n].kwargs[p] = Held(data, ctx[Lookup(step.inputs, p)])
            /\ (/\ pc = "returned"
                /\ step.function_slug = "str.prefix"
                /\ Lookup(step.inputs, "text") = TextPut.cell.id
                /\ step.config = [prefix |-> StrV("So Fancy, ")]) =>
                    Held(data, ret.context[Lookup(step.outputs, "return")])
                        = StrV("So Fancy, World")

C7_Witness ==
    /\ pc = "returned"
    /\ \E k \in 1..Len(steps) :
          /\ steps[k].config = [prefix |-> StrV("So Fancy, ")]
          /\ steps[k].inputs = << <<"text", TextPut.cell.id>> >>
          /\ Held(data, ret.context[Lookup(steps[k].outputs, "return")])
                = StrV("So Fancy, World")

\* C14: a run that fails on an unregistered slug or on an input id that
\* nothing supplies has invoked no step's logic and has put nothing into
\* the store (the store holds what it held before the run).
C14_NoPartialExecution ==
    (pc = "raised" /\ err.kind \in {"UnknownFunction", "MissingInputCell"}) =>
        /\ calls = <<>>
        /\ data = TextPut.data

----------------------------------------------------------------------------
(* Properties of Engine.run, checked under SpecChain *)

\* the value of a step's logic on one wired value
LogicOn(step, v) == Execute(registry[step.function_slug], [nums |-> v]).val

\* the three-step pipeline of the test on [1, 2, 3, 4, 5]
IsNumberPipeline ==
    /\ InputCell(<<1, 2, 3, 4, 5>>) \in initial
    /\ Len(steps) = 3
    /\ steps[1].function_slug = "filter_evens"
    /\ steps[1].inputs = << <<"nums", 1>> >>
    /\ steps[2].function_slug = "square_numbers"
    /\ steps[2].inputs = << <<"nums", steps[1].outputs[1][2]>> >>
    /\ steps[3].function_slug = "sum_numbers"
    /\ steps[3].inputs = << <<"nums", steps[2].outputs[1][2]>> >>

\* C5: after a successful run, the value held at each step's "return"
\* output id is the step's logic applied to the value held at its input
\* cell, so a chain yields the composition: [1,2,3,4,5] through
\* filter_evens, square_numbers, sum_numbers gives [2,4], [4,16] and 20.
C5_ChainComposes ==
    pc = "returned" =>
        /\ \A k \in 1..Len(steps) :
              LET out == Lookup(steps[k].outputs, "return")
                  in == Lookup(steps[k].inputs, "nums")
              IN  /\ out \in DOMAIN ret.context
                  /\ Held(data, ret.context[out])
                        = LogicOn(steps[k], Held(data, ret.context[in]))
        /\ IsNumberPipeline =>
              /\ Held(data, ret.context[steps[1].outputs[1][2]]) = ListV(<<2, 4>>)
              /\ Held(data, ret.context[steps[2].outputs[1][2]]) = ListV(<<4, 16>>)
              /\ Held(data, ret.context[steps[3].outputs[1][2]]) = IntV(20)

C5_Witness ==
    /\ pc = "returned"
    /\ IsNumberPipeline
    /\ Held(data, ret.context[steps[3].outputs[1][2]]) = IntV(20)

\* C8: determinism.  A run of the same workflow on the same initial cells,
\* started on a fresh store, ends as the run before it did: both return or
\* both fail, and the returned contexts resolve to the same values under
\* the same cell ids.
C8_Deterministic ==
    (Finished /\ prev # <<>>) => Outcome = prev[Len(prev)]

C8_Witness ==
    /\ pc = "returned"
    /\ runs = 2
    /\ Len(steps) = 3
    /\ Len(prev) = 1
    /\ prev[1].returned
    /\ \A k \in 1..3 : prev[1].values[steps[k].outputs[1][2]].ok

----------------------------------------------------------------------------
(* Properties of WorkflowBuilder.add_step, checked under SpecBuilder *)

\* an input that is a string naming no alias of the table vs
IsUnboundAlias(arg_val, vs) == arg_val.t = "str" /\ arg_val.s \notin DOMAIN vs
\* an input the alias loop raises on
IsBadInput(arg_val, vs) == arg_val.t # "uuid" /\ ~(arg_val.t = "str" /\ arg_val.s \in DOMAIN vs)
HasUnboundAlias(inputs, vs) ==
    \E k \in 1..Len(inputs) : IsUnboundAlias(inputs[k][2], vs)
FirstBadInput(inputs, vs) ==
    CHOOSE k \in 1..Len(inputs) :
        IsBadInput(inputs[k][2], vs) /\ \A j \in 1..(k - 1) : ~IsBadInput(inputs[j][2], vs)

\* C9 as stated: an add_step call with an input that is an alias never
\* bound in the builder fails with the undefined-alias error and leaves the
\* step list and the alias table as they were
C9_UndefinedAliasError ==
    [][\A c \in BuilderCalls :
        (HasUnboundAlias(c[2], vars) /\ BuilderAddStep(c[1], c[2], c[3], c[4])) =>
            /\ berr'.kind = "UndefinedAlias"
            /\ steps' = steps
            /\ vars' = vars
      ]_allVars

\* C9, amended: an add_step call with an input that is an alias never bound
\* in the builder fails and leaves the step list and the alias table as
\* they were; with the slug registered and that alias the first input the
\* loop rejects, the failure is the undefined-alias error naming it.
C9_UndefinedAliasFails ==
    [][\A c \in BuilderCalls :
        LET slug == c[1]
            inputs == c[2]
            config == c[3]
            output_alias == c[4]
        IN
        (HasUnboundAlias(inputs, vars)
            /\ BuilderAddStep(slug, inputs, config, output_alias)) =>
            /\ berr' # NoBErr
            /\ bret' = NoId
            /\ steps' = steps
            /\ vars' = vars
            /\ (slug \in DOMAIN registry
                /\ IsUnboundAlias(inputs[FirstBadInput(inputs, vars)][2], vars)) =>
                  berr' = UndefinedAliasError(
                              inputs[FirstBadInput(inputs, vars)][1],
                              inputs[FirstBadInput(inputs, vars)][2].s)
      ]_allVars

C9_Witness ==
    /\ berr.kind = "UndefinedAlias"
    /\ berr.alias = "final"
    /\ ncalls = 2
    /\ Len(steps) = 1
    /\ DOMAIN vars = {"sum1"}

\* C10: an add_step call with a slug that the catalog does not hold fails
\* with the unknown-function error and leaves the step list and the alias
\* table as they were.
C10_UnknownSlugFails ==
    [][\A c \in BuilderCalls :
        LET slug == c[1]
            inputs == c[2]
            config == c[3]
            output_alias == c[4]
        IN
        (slug \notin DOMAIN registry
            /\ BuilderAddStep(slug, inputs, config, output_alias)) =>
            /\ berr' = UnknownSlugError(slug)
            /\ bret' = NoId
            /\ steps' = steps
            /\ vars' = vars
      ]_allVars

C10_Witness ==
    /\ berr.kind = "UnknownFunction"
    /\ berr.slug = "missing_func"
    /\ ncalls = 2
    /\ Len(steps) = 1
    /\ DOMAIN vars = {"sum1"}

\* every id that exists before a call: of the caller's cells and stray
\* UUID, of the workflow, of the steps and their inputs and outputs, and
\* the ids the alias table holds
KnownIds ==
    {c.id : c \in cells} \cup {StrayId, BuilderWorkflowId}
        \cup {steps[k].step_id : k \in 1..Len(steps)}
        \cup UNION {Ids(steps[k].inputs) : k \in 1..Len(steps)}
        \cup OutputIds
        \cup {vars[a] : a \in DOMAIN vars}

\* C11: an add_step call that succeeds appends exactly one step after the
\* steps already there, which stay as they were; the new step's outputs
\* are {"return": id} with id an id that did not exist before the call;
\* the call returns that id; given an output_alias it binds the alias to
\* that id and leaves every other binding alone, and given none it leaves
\* the alias table alone.
C11_AddStepAppends ==
    [][\A c \in BuilderCalls :
        LET slug == c[1]
            inputs == c[2]
            config == c[3]
            output_alias == c[4]
        IN
        (berr' = NoBErr /\ BuilderAddStep(slug, inputs, config, output_alias)) =>
            /\ Len(steps') = Len(steps) + 1
            /\ SubSeq(steps', 1, Len(steps)) = steps
            /\ steps'[Len(steps')].function_slug = slug
            /\ steps'[Len(steps')].outputs = << <<"return", bret'>> >>
            /\ bret' # NoId
            /\ bret' \notin KnownIds
            /\ bret' # steps'[Len(steps')].step_id
            /\ output_alias # NoAlias =>
                  /\ DOMAIN vars' = DOMAIN vars \cup {output_alias}
                  /\ vars'[output_alias] = bret'
                  /\ \A a \in DOMAIN vars \ {output_alias} : vars'[a] = vars[a]
            /\ output_alias = NoAlias => vars' = vars
      ]_allVars

C11_Witness ==
    /\ berr = NoBErr
    /\ Len(steps) = 2
    /\ DOMAIN vars = {"sum1", "final"}
    /\ vars["sum1"] = Lookup(steps[1].outputs, "return")
    /\ vars["final"] = Lookup(steps[2].outputs, "return")
    /\ bret = vars["final"]

\* C12: in the step a successful add_step call appends, an input given as
\* an alias is wired to the id the alias is bound to at the call, which is
\* the id returned by the latest earlier add_step call that was given the
\* alias as output_alias; an input given as a UUID is wired to that UUID.
C12_AliasResolution ==
    [][\A c \in BuilderCalls :
        LET slug == c[1]
            inputs == c[2]
            config == c[3]
            output_alias == c[4]
        IN
        (berr' = NoBErr /\ BuilderAddStep(slug, inputs, config, output_alias)) =>
            LET wired == steps'[Len(steps')].inputs
            IN  /\ Len(wired) = Len(inputs)
                /\ \A k \in 1..Len(inputs) :
                      /\ wired[k][1] = inputs[k][1]
                      /\ inputs[k][2].t = "uuid" => wired[k][2] = inputs[k][2].id
                      /\ inputs[k][2].t = "str" =>
                            /\ inputs[k][2].s \in DOMAIN aliased
                            /\ wired[k][2] = aliased[inputs[k][2].s]
                            /\ wired[k][2] = vars[inputs[k][2].s]
      ]_allVars

\* the alias sum1 was bound by the first call and bound again by the second;
\* the third call's input "sum1" is wired to the second call's output
C12_Witness ==
    /\ berr = NoBErr
    /\ Len(steps) = 3
    /\ DOMAIN vars = {"sum1"}
    /\ steps[2].inputs = <<>>
    /\ vars["sum1"] = Lookup(steps[2].outputs, "return")
    /\ steps[3].inputs = << <<"a", Lookup(steps[2].outputs, "return")>> >>
    /\ bret = Lookup(steps[3].outputs, "return")

\* C13: in a workflow built by add_step calls every input id of step k is
\* the id of a cell of the initial cell set or an output id of a step
\* before k.
C13_TopologicalOrder ==
    \A k \in 1..Len(steps) :
        \A id \in Ids(steps[k].inputs) :
            \/ id \in {c.id : c \in cells}
            \/ \E j \in 1..(k - 1) : id \in Ids(steps[j].outputs)

----------------------------------------------------------------------------
(* Properties of the decorator factory, checked under SpecWiring *)

\* the handle the last successful factory call returned
NewWiring == wirings[Len(wirings)]

\* the argument bound to parameter p by a call with kwargs: the one given,
\* or p's default
ArgumentOf(p, kwargs) ==
    IF p.name \in Names(kwargs) THEN Lookup(kwargs, p.name)
    ELSE LiteralArg(p.default)

\* a handle whose outputs are not one cell
IsMultiHandle(arg) == arg.t = "StepWiring" /\ ~IsFancyCell(arg.obj.outputs)

\* C15: a factory call invokes no user logic and leaves the catalog and
\* the store as they were (and the workflow steps and the caller's cells);
\* when it succeeds its only product is one more handle, made of a step
\* and a PENDING cell that is the step's "return" output; when it fails
\* there is no new handle.
C15_FactoryIsPure ==
    [][nfactory' = nfactory + 1 =>
          /\ calls' = calls
          /\ registry' = registry
          /\ data' = data
          /\ steps' = steps
          /\ cells' = cells
          /\ werr' # NoWErr => wirings' = wirings
          /\ werr' = NoWErr =>
                /\ Len(wirings') = Len(wirings) + 1
                /\ SubSeq(wirings', 1, Len(wirings)) = wirings
                /\ IsFancyCell(NewWiring'.outputs)
                /\ NewWiring'.outputs.storage_kind = "PENDING"
                /\ NewWiring'.step.outputs =
                      << <<"return", NewWiring'.outputs.id>> >>
      ]_allVars

\* two successful calls, the second wired to the first one's handle
C15_Witness ==
    /\ Len(wirings) = 2
    /\ nfactory = 2
    /\ wirings[1].step.function_slug = "dummy_prefix"
    /\ wirings[2].step.inputs = << <<"item", wirings[1].outputs.id>> >>
    /\ calls = <<>>
    /\ data = <<>>
    /\ registry = WiringCatalog

\* C16: in the step of a successful factory call every bound argument (the
\* ones given and the defaults of the ones omitted) is in exactly one of
\* inputs and config: a cell under its id in inputs, a handle under the id
\* of its output cell in inputs, anything else by value in config; inputs
\* and config name no other parameter, and no name twice.
C16_ArgumentsClassified ==
    [][\A slug \in DOMAIN WiringCatalog : \A kwargs \in WiringKwargs(slug) :
        (Factory(slug, kwargs) /\ werr' = NoWErr) =>
            LET new_step == NewWiring'.step
                params == Signature(slug)
            IN  /\ Names(new_step.inputs) \cup DOMAIN new_step.config
                      = ParamNames(params)
                /\ Names(new_step.inputs) \cap DOMAIN new_step.config = {}
                /\ Cardinality(Names(new_step.inputs)) = Len(new_step.inputs)
                /\ \A k \in 1..Len(params) :
                      LET name == params[k].name
                          arg == ArgumentOf(params[k], kwargs)
                      IN  /\ arg.t = "FancyCell" =>
                                /\ name \in Names(new_step.inputs)
                                /\ Lookup(new_step.inputs, name) = arg.obj.id
                          /\ arg.t = "StepWiring" =>
                                /\ name \in Names(new_step.inputs)
                                /\ Lookup(new_step.inputs, name)
                                      = arg.obj.outputs.id
                          /\ arg.t = "literal" =>
                                /\ name \in DOMAIN new_step.config
                                /\ new_step.config[name] = arg.obj
      ]_allVars

\* scale(data=cell_data, factor=5) of the tests, here add(a=cell, b=2);
\* then a call with a handle and an omitted parameter that has a default
C16_Witness ==
    /\ Len(wirings) = 2
    /\ wirings[1].step.function_slug = "add"
    /\ wirings[1].step.inputs = << <<"a", WiringCell.id>> >>
    /\ wirings[1].step.config = [b |-> IntV(2)]
    /\ wirings[2].step.function_slug = "dummy_prefix"
    /\ wirings[2].step.inputs = << <<"text", wirings[1].outputs.id>> >>
    /\ wirings[2].step.config = [prefix |-> StrV("Hello ")]

\* C17: the output cell of every handle a factory call returned is a
\* PENDING cell without payload, the step's outputs are exactly
\* {"return": that cell's id}, and no two handles have the same output id
\* (nor the id of a cell or handle that existed before).
C17_FreshPendingOutput ==
    \A k \in 1..Len(wirings) :
        /\ IsFancyCell(wirings[k].outputs)
        /\ wirings[k].outputs.storage_kind = "PENDING"
        /\ wirings[k].outputs.value = NoneV
        /\ wirings[k].outputs.reference_uri = NoUri
        /\ wirings[k].step.outputs = << <<"return", wirings[k].outputs.id>> >>
        /\ wirings[k].outputs.id \notin
              {WiringCell.id, MultiWiring.outputs.first.id,
               MultiWiring.outputs.second.id, MultiWiring.step.step_id}
        /\ wirings[k].outputs.id # wirings[k].step.step_id
        /\ \A j \in 1..(k - 1) :
              /\ wirings[j].outputs.id # wirings[k].outputs.id
              /\ wirings[j].step.step_id # wirings[k].outputs.id
              /\ wirings[j].outputs.id # wirings[k].step.step_id

C17_Witness ==
    /\ Len(wirings) = 3
    /\ wirings[1].step.function_slug = "consumer"
    /\ wirings[2].step.function_slug = "consumer"
    /\ wirings[1].step.inputs = wirings[2].step.inputs
    /\ wirings[3].step.function_slug = "add"

RECURSIVE WiredInputs(_)
WiredInputs(kwargs) ==
    IF kwargs = <<>> THEN <<>>
    ELSE LET name == kwargs[1][1]
             arg == kwargs[1][2]
         IN  (IF arg.t = "FancyCell" THEN << <<name, UuidArg(arg.obj.id)>> >>
              ELSE IF arg.t = "StepWiring"
              THEN << <<name, UuidArg(arg.obj.outputs.id)>> >>
              ELSE <<>>) \o WiredInputs(Tail(kwargs))

LiteralConfig(kwargs) ==
    [name \in {kwargs[k][1] : k \in {j \in 1..Len(kwargs) : kwargs[j][2].t = "literal"}}
        |-> Lookup(kwargs, name).obj]

\* the step add_step appends for the call
BuilderStep(slug, kwargs) ==
    AddStepResult(registry, <<>>, uuid, slug, WiredInputs(kwargs),
                  LiteralConfig(kwargs), NoAlias)

\* the parameters with a default that the call leaves out
OmittedDefaults(slug, kwargs) ==
    {k \in 1..Len(Signature(slug)) :
        /\ Signature(slug)[k].has_default
        /\ Signature(slug)[k].name \notin Names(kwargs)}

\* a dict's items, whatever their order
Items(pairs) == {pairs[k] : k \in 1..Len(pairs)}

\* C19 as stated: for a registered slug, the step of a successful factory
\* call and the step add_step builds from the same wired ids and the same
\* literal arguments have equal function_slug, equal inputs, equal config
\* and outputs with the single key "return".
C19_EquivalentSurfaces ==
    [][\A slug \in DOMAIN WiringCatalog : \A kwargs \in WiringKwargs(slug) :
        (Factory(slug, kwargs) /\ werr' = NoWErr /\ slug \in DOMAIN registry) =>
            LET b == BuilderStep(slug, kwargs)
                new_step == NewWiring'.step
            IN  /\ b.err = NoBErr
                /\ b.added[1].function_slug = new_step.function_slug
                /\ Items(b.added[1].inputs) = Items(new_step.inputs)
                /\ b.added[1].config = new_step.config
                /\ Names(b.added[1].outputs) = {"return"}
                /\ Names(new_step.outputs) = {"return"}
      ]_allVars

\* C19, amended: the two steps have equal function_slug, equal inputs and
\* outputs with the single key "return"; the factory's config holds the
\* builder's config and, besides, the default of every parameter the call
\* left out; the configs are equal when no parameter with a default is
\* left out.
C19_EquivalentUpToDefaults ==
    [][\A slug \in DOMAIN WiringCatalog : \A kwargs \in WiringKwargs(slug) :
        (Factory(slug, kwargs) /\ werr' = NoWErr /\ slug \in DOMAIN registry) =>
            LET b == BuilderStep(slug, kwargs)
                new_step == NewWiring'.step
                omitted == OmittedDefaults(slug, kwargs)
                params == Signature(slug)
            IN  /\ b.err = NoBErr
                /\ b.added[1].function_slug = new_step.function_slug
                /\ Items(b.added[1].inputs) = Items(new_step.inputs)
                /\ Len(b.added[1].inputs) = Len(new_step.inputs)
                /\ DOMAIN new_step.config =
                      DOMAIN b.added[1].config
                          \cup {params[k].name : k \in omitted}
                /\ \A name \in DOMAIN b.added[1].config :
                      new_step.config[name] = b.added[1].config[name]
                /\ \A k \in omitted :
                      /\ params[k].name \notin DOMAIN b.added[1].config
                      /\ new_step.config[params[k].name] = params[k].default
                /\ omitted = {} => b.added[1].config = new_step.config
                /\ Names(b.added[1].outputs) = {"return"}
                /\ Names(new_step.outputs) = {"return"}
      ]_allVars

\* dummy_prefix(text=cell, prefix="So Fancy, "), then add(b=2, a=cell)
C19_Witness ==
    /\ Len(wirings) = 2
    /\ wirings[1].step.function_slug = "dummy_prefix"
    /\ wirings[1].step.inputs = << <<"text", WiringCell.id>> >>
    /\ wirings[1].step.config = [prefix |-> StrV("So Fancy, ")]
    /\ wirings[2].step.function_slug = "add"
    /\ wirings[2].step.config = [b |-> IntV(2)]
    /\ nfactory = 2

----------------------------------------------------------------------------
(* Properties of serialization, checked under SpecBuilder *)

\* builder.workflow of WorkflowBuilder("Chain")
BuilderWorkflow == Workflow(BuilderWorkflowId, "Chain", steps)

\* builder.export_json(), and the workflow read back from it
Exported == to_json(BuilderWorkflow)
Loaded == from_json(Exported, uuid)

\* values that JSON has a form of its own for: None, int, str, list, and
\* dict of such values
RECURSIVE IsJsonNative(_)
IsJsonNative(v) ==
    \/ v.t \in {"none", "int", "str", "list"}
    \/ v.t = "dict" /\ \A p \in v.m : IsJsonNative(p[2])

ConfigIsJsonNative ==
    \A k \in 1..Len(steps) :
        \A name \in DOMAIN steps[k].config : IsJsonNative(steps[k].config[name])

\* C20 as stated: for every workflow built by add_step calls, reading back
\* its serialized form gives a workflow equal to it in id, name, step order
\* and every field of every step, and serializing that again gives the same
\* serialized value.
C20_RoundTrip ==
    /\ Loaded.id = BuilderWorkflow.id
    /\ Loaded.name = BuilderWorkflow.name
    /\ Len(Loaded.steps) = Len(steps)
    /\ \A k \in 1..Len(steps) :
          /\ Loaded.steps[k].step_id = steps[k].step_id
          /\ Loaded.steps[k].function_slug = steps[k].function_slug
          /\ Loaded.steps[k].config = steps[k].config
          /\ Loaded.steps[k].inputs = steps[k].inputs
          /\ Loaded.steps[k].outputs = steps[k].outputs
    /\ to_json(Loaded) = Exported

\* C20, amended: serializing the workflow read back gives the same
\* serialized value, and the workflow read back equals the original in id,
\* name, step order and each step's step_id, function_slug, inputs and
\* outputs; each step's config is equal too when its values are None,
\* integers, strings, lists and dicts of these (a tuple is read back as a
\* list).
C20_RoundTripJsonNative ==
    /\ Loaded.id = BuilderWorkflow.id
    /\ Loaded.name = BuilderWorkflow.name
    /\ Len(Loaded.steps) = Len(steps)
    /\ \A k \in 1..Len(steps) :
          /\ Loaded.steps[k].step_id = steps[k].step_id
          /\ Loaded.steps[k].function_slug = steps[k].function_slug
          /\ Loaded.steps[k].inputs = steps[k].inputs
          /\ Loaded.steps[k].outputs = steps[k].outputs
          /\ DOMAIN Loaded.steps[k].config = DOMAIN steps[k].config
          /\ (\A name \in DOMAIN steps[k].config :
                 IsJsonNative(steps[k].config[name]))
                => Loaded.steps[k].config = steps[k].config
    /\ to_json(Loaded) = Exported
    /\ ConfigIsJsonNative => Loaded = BuilderWorkflow

\* the workflow of test_builder_chaining: two steps, the second wired to
\* the first, with an int in its config
C20_Witness ==
    /\ Len(steps) = 2
    /\ steps[1].config = <<>>
    /\ steps[2].config = [b |-> IntV(10)]
    /\ steps[2].inputs = << <<"a", Lookup(steps[1].outputs, "return")>> >>
    /\ Loaded = BuilderWorkflow
    /\ Exported.steps[2].inputs = << <<"a", "4">> >>

----------------------------------------------------------------------------
(* Properties of the store, checked under SpecStore *)

\* C21: every put returned a REFERENCE cell whose uri was not in that
\* store's table before the call, and the same store resolves that cell to
\* the value that was put, whatever was put after it
C21_PutThenResolve ==
    /\ \A k \in 1..Len(puts) :
          /\ puts[k].cell.storage_kind = "REFERENCE"
          /\ puts[k].cell.reference_uri \notin puts[k].before
          /\ Resolve(Table(puts[k].store), puts[k].cell) = Returned(puts[k].value)
    /\ \A k \in 1..Len(puts) :
          sres.store = puts[k].store /\ sres.cell = puts[k].cell
              => sres.res = Returned(puts[k].value)

\* the first cell put was resolved on its store after two more puts, one of
\* them on the same store
C21_Witness ==
    /\ Len(puts) >= 3
    /\ puts[2].store = puts[1].store
    /\ sres.store = puts[1].store
    /\ sres.cell = puts[1].cell
    /\ sres.after >= 3
    /\ sres.res = Returned(puts[1].value)

\* C22: the two stores never hold a uri in common, and a resolve of a
\* REFERENCE cell on a store whose table lacks the cell's uri raises the
\* data-not-found error and changes neither table
C22_ForeignReferenceFails ==
    /\ [](DOMAIN data \cap DOMAIN other = {})
    /\ [][\A s \in StoreNames, cell \in cells :
             (/\ cell.storage_kind = "REFERENCE"
              /\ cell.reference_uri \notin DOMAIN Table(s)
              /\ StoreResolve(s, cell))
             => /\ sres'.res = Raised("ValueError")
                /\ sres'.err = DataNotFoundError(cell.reference_uri)
                /\ data' = data
                /\ other' = other]_allVars

\* a cell that the second store's put returned was resolved on the first
\* store, which holds data of its own, and the resolve raised
C22_Witness ==
    /\ \E k \in 1..Len(puts) : puts[k].store = "other" /\ sres.cell = puts[k].cell
    /\ sres.store = "data"
    /\ data # <<>>
    /\ sres.err.kind = "DataNotFound"

----------------------------------------------------------------------------
(* Properties of Engine.run's handling of cells and outputs, checked under *)
(* SpecOutputs                                                             *)

\* C23: in no run does the engine hand a cell of storage kind PENDING to
\* store.resolve
C23_PendingNeverResolved ==
    \A k \in 1..Len(resolved) : resolved[k].storage_kind # "PENDING"

----------------------------------------------------------------------------
(* Properties of the catalog, checked under SpecCatalog *)

\* the entry of the last register call for a slug, None when there was no
\* such call since the catalog was last cleared
LastRegistered(slug) ==
    IF slug \in DOMAIN regd THEN regd[slug].entry ELSE Absent

\* C24: a register call under a slug that has an entry replaces the entry;
\* at every time get(slug) is the entry of the last register call for the
\* slug, and None for a slug never registered, and that is what a get call
\* returns
C24_LastRegistrationWins ==
    /\ [](\A slug \in CatalogSlugs \cup {"missing_func"} :
            get(registry, slug) = LastRegistered(slug))
    /\ [][\A slug \in CatalogSlugs \cup {"missing_func"} :
             CatalogGet(slug) => gres'.entry = LastRegistered(slug)]_allVars
    /\ [][\A slug \in CatalogSlugs, exe \in CatalogExecutables :
             (slug \in DOMAIN registry /\ CatalogRegister(slug, exe))
                 => get(registry', slug) = exe]_allVars

\* add was registered over an entry it already had, beside an entry for
\* len, and a get call returned the entry registered last
C24_Witness ==
    /\ "add" \in DOMAIN regd
    /\ regd["add"].over
    /\ gres = [slug |-> "add", entry |-> "func_str_len"]
    /\ get(registry, "len") = "func_add"
    /\ get(registry, "add") = "func_str_len"

\* C25: the catalog's table changes in no step but a register call, which
\* sets the given slug's entry and leaves every other entry as it was, and
\* a clear call, which leaves no entry, so that every get is None; a get
\* call, a factory call, an add_step call and every step of Engine.run
\* leave the table as it was
C25_CatalogFrame ==
    /\ [][registry' # registry => (RegisterCall \/ CatalogClear)]_allVars
    /\ [][\A slug \in CatalogSlugs, exe \in CatalogExecutables :
             CatalogRegister(slug, exe) =>
                 registry' = [x \in DOMAIN registry \cup {slug} |->
                                 IF x = slug THEN exe ELSE registry[x]]]_allVars
    /\ [][CatalogClear =>
             \A slug \in CatalogSlugs \cup {"missing_func"} :
                 get(registry', slug) = Absent]_allVars
    /\ [][(GetCall \/ CatalogFactoryCall \/ CatalogAddStep \/ CatalogRun
             \/ RunStep \/ RunReturn) => registry' = registry]_allVars

\* a step was added, a factory called and the workflow run to its end
\* over a catalog that was cleared afterwards, and a get then returned
\* None for add
C25_Witness ==
    /\ pc = "returned"
    /\ Len(calls) = 1
    /\ ncalls = 1
    /\ nfactory = 1
    /\ registry = <<>>
    /\ gres = [slug |-> "add", entry |-> Absent]

----------------------------------------------------------------------------
(* Properties of the run loop, checked under Spec and SpecChain *)

\* every wired input of the step at k is in the context and, when it is a
\* reference, has its uri in the store's table
InputsResolve(k) ==
    \A id \in Ids(steps[k].inputs) :
        /\ id \in DOMAIN ctx
        /\ ctx[id].storage_kind = "REFERENCE" =>
               ctx[id].reference_uri \in DOMAIN data

\* the loop is at a step whose slug has no entry in the catalog
AtUnknownSlug ==
    /\ pc = "running"
    /\ idx <= Len(steps)
    /\ steps[idx].function_slug \notin DOMAIN registry

\* C26 as stated: at a step whose slug has no entry the run fails with the
\* unknown-function error, no logic is invoked for the step and the
\* context gets no cell
C26_UnknownSlugError ==
    [][(AtUnknownSlug /\ RunStep) =>
          /\ pc' = "raised"
          /\ err'.kind = "UnknownFunction"
          /\ err'.slug = steps[idx].function_slug
          /\ calls' = calls
          /\ ctx' = ctx]_allVars

\* C26, amended: at a step whose slug has no entry the run fails, no logic
\* is invoked for the step and the context gets no cell; the failure is
\* the unknown-function error when every wired input of the step is in the
\* context and resolves, and otherwise the missing-input or data-not-found
\* error of the input loop
C26_UnknownSlugAfterInputs ==
    [][(AtUnknownSlug /\ RunStep) =>
          /\ pc' = "raised"
          /\ calls' = calls
          /\ ctx' = ctx
          /\ IF InputsResolve(idx)
             THEN /\ err'.kind = "UnknownFunction"
                  /\ err'.slug = steps[idx].function_slug
             ELSE err'.kind \in {"MissingInputCell", "DataNotFound"}]_allVars

\* the second step, wired to the first step's output, has a slug without
\* entry: the first step ran, the run failed at the second with the
\* unknown-function error
C26_Witness ==
    /\ pc = "raised"
    /\ err.kind = "UnknownFunction"
    /\ idx = 2
    /\ Len(calls) = 1
    /\ steps[2].inputs # <<>>
    /\ Ids(steps[2].inputs) \subseteq Ids(steps[1].outputs)
    /\ DOMAIN ctx = {c.id : c \in initial} \cup Ids(steps[1].outputs)

\* C27: the n-th invocation of logic in a run is that of the n-th step of
\* the workflow, so that the steps are invoked in the stored order and
\* none is invoked twice in the run
C27_InvokedInOrder ==
    \A n \in 1..Len(calls) :
        /\ calls[n].idx = n
        /\ calls[n].step_id = steps[n].step_id
        /\ calls[n].slug = steps[n].function_slug
        /\ n <= idx

\* a workflow of three steps was run twice to its end, the second time
\* with three invocations again
C27_Witness ==
    /\ pc = "returned"
    /\ runs = 2
    /\ Len(steps) = 3
    /\ Len(calls) = 3

----------------------------------------------------------------------------
(* Properties of the output handling, checked under SpecOutputs *)

\* the result is a mapping that has a key among the declared output names
IsNamedResult(step, result) ==
    result.t = "dict" /\ Keys(result) \cap Names(step.outputs) # {}

\* the output names the interpreted result has
InterpretedNames(step, result) ==
    IF IsNamedResult(step, result) THEN Keys(result) ELSE {"return"}

\* the context has under id what it had before the step, or nothing
EntryKept(id) ==
    IF id \in DOMAIN ctx THEN id \in DOMAIN ctx' /\ ctx'[id] = ctx[id]
    ELSE id \notin DOMAIN ctx'

\* the step at idx is taken and its logic returns a result
LogicReturns ==
    /\ pc = "running"
    /\ idx <= Len(steps)
    /\ RunStep
    /\ Len(calls') = Len(calls) + 1
    /\ calls'[Len(calls')].ok

\* C28: when the logic of a step returns a mapping with a key among the
\* step's declared output names, each declared name that is a key gets
\* the value under that key; in every other case the output declared as
\* "return" gets the whole result and no other declared output gets
\* anything
C28_ResultInterpretation ==
    [][LogicReturns =>
          LET step == steps[idx]
              result == calls'[Len(calls')].result
          IN  \A k \in 1..Len(step.outputs) :
                  LET name == step.outputs[k][1]
                      id == step.outputs[k][2]
                  IN  IF IsNamedResult(step, result)
                      THEN name \in Keys(result) =>
                              /\ id \in DOMAIN ctx'
                              /\ Held(data', ctx'[id]) = Get(result, name)
                      ELSE IF name = "return"
                      THEN /\ id \in DOMAIN ctx'
                           /\ Held(data', ctx'[id]) = result
                      ELSE EntryKept(id)]_allVars

\* extract_metadata ran twice: declared as title and duration it gave its
\* two values to the two outputs, declared as "return" alone it gave the
\* whole dict to that output
C28_Witness ==
    /\ pc = "returned"
    /\ Len(calls) = 2
    /\ calls[1].result.t = "dict"
    /\ calls[2].result.t = "dict"
    /\ Names(steps[1].outputs) = {"title", "duration"}
    /\ Names(steps[2].outputs) = {"return"}
    /\ Held(data, ret.context[Lookup(steps[1].outputs, "duration")]) = IntV(120)
    /\ Held(data, ret.context[Lookup(steps[2].outputs, "return")]) = calls[2].result

\* C29: when the logic of a step returned, the run goes on to the next
\* step without error, and for every declared output name that the
\* interpreted result lacks the context has under that output's id what
\* it had before the step: no entry, if it had none
C29_AbsentOutputSkipped ==
    [][LogicReturns =>
          LET step == steps[idx]
              result == calls'[Len(calls')].result
          IN  /\ pc' = "running"
              /\ idx' = idx + 1
              /\ err' = err
              /\ \A k \in 1..Len(step.outputs) :
                    step.outputs[k][1] \notin InterpretedNames(step, result)
                        => EntryKept(step.outputs[k][2])]_allVars

\* a step declared title and "return" and its logic returned a dict with
\* title only of the two: the run returned, with an entry for title and
\* none for "return"; the next step declared title too and returned a
\* string, and has no entry for title
C29_Witness ==
    /\ pc = "returned"
    /\ Len(calls) = 2
    /\ Names(steps[1].outputs) = {"title", "return"}
    /\ calls[1].result.t = "dict"
    /\ Lookup(steps[1].outputs, "title") \in DOMAIN ret.context
    /\ Lookup(steps[1].outputs, "return") \notin DOMAIN ret.context
    /\ Names(steps[2].outputs) = {"title", "return"}
    /\ calls[2].result.t = "str"
    /\ Lookup(steps[2].outputs, "title") \notin DOMAIN ret.context

\* the ids of the outputs that the steps invoked in the run produced
ProducedIds ==
    UNION {{steps[calls[n].idx].outputs[k][2] :
               k \in {j \in 1..Len(steps[calls[n].idx].outputs) :
                         steps[calls[n].idx].outputs[j][1] \in
                             InterpretedNames(steps[calls[n].idx], calls[n].result)}} :
           n \in {m \in 1..Len(calls) : calls[m].ok}}

\* C30 as stated: the returned context has as keys the ids of the initial
\* cells and of the produced outputs, and every initial cell is in it
\* under its id as it was passed
C30_ContextKeys ==
    pc = "returned" =>
        /\ DOMAIN ret.context = {c.id : c \in initial} \cup ProducedIds
        /\ \A c \in initial : ret.context[c.id] = c

\* C30, amended: the returned context has as keys the ids of the initial
\* cells and of the produced outputs; an initial cell is in it under its
\* id as it was passed unless a produced output has that id, and then the
\* produced cell is there
C30_ContextKeysUnlessReplaced ==
    pc = "returned" =>
        /\ DOMAIN ret.context = {c.id : c \in initial} \cup ProducedIds
        /\ \A c \in initial :
              IF c.id \in ProducedIds
              THEN /\ ret.context[c.id].storage_kind = "REFERENCE"
                   /\ ret.context[c.id].reference_uri \in DOMAIN data
                   /\ ret.context[c.id].id = c.id
              ELSE ret.context[c.id] = c

\* a run on both cells returned: one step's output took the placeholder's
\* id and replaced it, the video cell is there as passed, and a declared
\* output that was not produced has no key
C30_Witness ==
    /\ pc = "returned"
    /\ initial = {UrlCell, PendingCell}
    /\ PendingCell.id \in ProducedIds
    /\ ret.context[UrlCell.id] = UrlCell
    /\ OutputIds \ ProducedIds # {}
    /\ Cardinality(ProducedIds) = 2

----------------------------------------------------------------------------
(* Further properties of Engine.run, checked under Spec *)

\* C31: no step of Engine.run, from its entry to its return or its raise,
\* changes the workflow: the step list has the same steps in the same
\* order, each with the step id, slug, config, inputs and outputs it had
C31_WorkflowUntouched ==
    [][(EngineRun \/ RunStep \/ RunReturn) =>
          /\ Len(steps') = Len(steps)
          /\ \A k \in 1..Len(steps) :
                /\ steps'[k].step_id = steps[k].step_id
                /\ steps'[k].function_slug = steps[k].function_slug
                /\ steps'[k].config = steps[k].config
                /\ steps'[k].inputs = steps[k].inputs
                /\ steps'[k].outputs = steps[k].outputs]_allVars

\* a run over two steps came to its end; the first step, which has a
\* config, was invoked with arguments beyond that config
C31_Witness ==
    /\ Finished
    /\ Len(steps) = 2
    /\ Len(calls) >= 1
    /\ steps[1].config # <<>>
    /\ steps[2].inputs # <<>>
    /\ calls[1].kwargs # steps[1].config

\* the step at idx has a wired input whose id the context lacks
HasMissingInput == \E id \in Ids(steps[idx].inputs) : id \notin DOMAIN ctx

\* the position in that step's inputs of the first id the context lacks
FirstMissingInput ==
    CHOOSE j \in 1..Len(steps[idx].inputs) :
        /\ steps[idx].inputs[j][2] \notin DOMAIN ctx
        /\ \A i \in 1..(j - 1) : steps[idx].inputs[i][2] \in DOMAIN ctx

\* C35 as stated: a step with a wired input absent from the context and a
\* slug without entry fails with the missing-input error
C35_MissingInputBeforeSlug ==
    [][(AtUnknownSlug /\ HasMissingInput /\ RunStep) =>
          /\ pc' = "raised"
          /\ err'.kind = "MissingInputCell"]_allVars

\* C35, amended: a step with a wired input absent from the context and a
\* slug without entry fails in the input loop, never with the
\* unknown-function error: with the missing-input error for the first
\* absent id when the inputs wired before it resolve, and with the
\* data-not-found error otherwise
C35_InputsBeforeSlug ==
    [][(AtUnknownSlug /\ HasMissingInput /\ RunStep) =>
          /\ pc' = "raised"
          /\ calls' = calls
          /\ err'.kind # "UnknownFunction"
          /\ IF ResolveBefore(idx, FirstMissingInput)
             THEN err' = MissingInputError(steps[idx],
                             steps[idx].inputs[FirstMissingInput][2])
             ELSE err'.kind = "DataNotFound"]_allVars

\* the second step has a slug without entry and an input that nothing
\* supplied: the run failed there with the missing-input error
C35_Witness ==
    /\ pc = "raised"
    /\ idx = 2
    /\ Len(calls) = 1
    /\ steps[2].function_slug \notin DOMAIN registry
    /\ err.kind = "MissingInputCell"
    /\ err.step_id = steps[2].step_id
    /\ err.cell_id \notin DOMAIN ctx

\* the value that the n-th invocation returned is in the store's table,
\* under the uri of the cell the context holds for the step's output
ResultKept(n) ==
    LET id == Lookup(steps[calls[n].idx].outputs, "return") IN
    /\ id \in DOMAIN ctx
    /\ ctx[id].storage_kind = "REFERENCE"
    /\ ctx[id].reference_uri \in DOMAIN data
    /\ data[ctx[id].reference_uri] = calls[n].result

\* C34: the store's table only grows.  No step of any run removes an entry
\* or changes the value under a uri the table already has, and in the
\* state after a run failed every value that a step before the failing one
\* put is still in the table.
C34_StoreOnlyGrows ==
    /\ [][\A u \in DOMAIN data : u \in DOMAIN data' /\ data'[u] = data[u]]_allVars
    /\ [](pc = "raised" => \A n \in 1..Len(calls) : calls[n].ok => ResultKept(n))

\* the first step put its result, the second step failed, and the table
\* holds the caller's value and the first step's result
C34_Witness ==
    /\ pc = "raised"
    /\ idx = 2
    /\ Len(calls) = 1
    /\ calls[1].ok
    /\ ResultKept(1)
    /\ Cardinality(DOMAIN data) = 2

----------------------------------------------------------------------------
(* A further property of WorkflowBuilder.add_step, checked under           *)
(* SpecBuilder                                                             *)

\* an input that is neither a UUID nor a string
IsOtherInput(arg_val) == arg_val.t \notin {"uuid", "str"}
HasOtherInput(inputs) == \E k \in 1..Len(inputs) : IsOtherInput(inputs[k][2])

\* C33 as stated: an add_step call with an input that is neither a cell id
\* nor a string fails with the type-mismatch error and leaves the step list
\* and the alias table as they were
C33_TypeMismatchError ==
    [][\A c \in BuilderCalls :
        (HasOtherInput(c[2]) /\ BuilderAddStep(c[1], c[2], c[3], c[4])) =>
            /\ berr'.kind = "TypeMismatch"
            /\ steps' = steps
            /\ vars' = vars
      ]_allVars

\* C33, amended: an add_step call with an input that is neither a cell id
\* nor a string fails, returns no id and leaves the step list and the
\* alias table as they were; with the slug registered and that input the
\* first one the loop rejects, the failure is the type-mismatch error
\* naming the input.
C33_TypeMismatchFails ==
    [][\A c \in BuilderCalls :
        LET slug == c[1]
            inputs == c[2]
        IN
        (HasOtherInput(inputs) /\ BuilderAddStep(slug, inputs, c[3], c[4])) =>
            /\ berr' # NoBErr
            /\ bret' = NoId
            /\ steps' = steps
            /\ vars' = vars
            /\ uuid' = uuid
            /\ (slug \in DOMAIN registry
                /\ IsOtherInput(inputs[FirstBadInput(inputs, vars)][2])) =>
                  berr' = InputTypeError(inputs[FirstBadInput(inputs, vars)][1])
      ]_allVars

\* after a step was added and bound to sum1, a call with a second input of
\* another type failed with the type-mismatch error naming that input
C33_Witness ==
    /\ berr = InputTypeError("b")
    /\ bret = NoId
    /\ ncalls = 2
    /\ Len(steps) = 1
    /\ DOMAIN vars = {"sum1"}

----------------------------------------------------------------------------
(* Further properties of Engine.run, checked under SpecOutputs *)

\* C32: when the step at idx has an input wired to a composite cell and
\* its logic is invoked, the argument under that input's name is the
\* cell's own value, the list of its children's ids, and not the
\* children's values
C32_CompositeUnresolved ==
    [][(pc = "running" /\ idx <= Len(steps) /\ RunStep
            /\ Len(calls') = Len(calls) + 1) =>
          \A j \in 1..Len(steps[idx].inputs) :
              LET name == steps[idx].inputs[j][1]
                  id == steps[idx].inputs[j][2]
              IN  (id \in DOMAIN ctx /\ ctx[id].storage_kind = "COMPOSITE") =>
                     /\ calls'[Len(calls')].kwargs[name] = ctx[id].value
                     /\ ctx[id].value.t = "list"
                     /\ \A i \in 1..Len(ctx[id].value.l) :
                           ctx[id].value.l[i] \in {c.id : c \in cells}]_allVars

\* len ran on the composite cell and counted its two child ids
C32_Witness ==
    /\ pc = "returned"
    /\ GroupCell \in initial
    /\ Len(calls) = 1
    /\ calls[1].slug = "len"
    /\ calls[1].kwargs = [text |-> ListV(<<UrlCell.id, PendingCell.id>>)]
    /\ calls[1].result = IntV(2)

\* C36: every call of Engine.run starts from a context that holds the
\* call's initial cells under their ids and nothing else, and at every
\* point of a run the context has no id but those of the run's initial
\* cells and of the outputs produced in that run
C36_FreshContext ==
    /\ [][(OutputsRun \/ OutputsRerun) =>
            /\ DOMAIN ctx' = {c.id : c \in initial'}
            /\ \A c \in initial' : ctx'[c.id] = c]_allVars
    /\ [](runs > 0 => DOMAIN ctx \subseteq {c.id : c \in initial} \cup ProducedIds)
    /\ [](pc = "returned" =>
            DOMAIN ret.context \subseteq {c.id : c \in initial} \cup ProducedIds)

\* the first call returned a context that had the video cell; the second
\* call, on the same store, was given a cell the first call produced and
\* not the video cell, and failed for the step wired to the video cell
C36_Witness ==
    /\ runs = 2
    /\ Len(prev) = 1
    /\ prev[1].returned
    /\ pc = "raised"
    /\ err.kind = "MissingInputCell"
    /\ err.cell_id = UrlCell.id
    /\ UrlCell.id \in DOMAIN prev[1].values
    /\ \E c \in initial : c.storage_kind = "REFERENCE" /\ c.reference_uri \in DOMAIN data

\* the n-th invocation of the run produced an output under id
Produces(n, id) ==
    /\ calls[n].ok
    /\ \E k \in 1..Len(steps[calls[n].idx].outputs) :
          /\ steps[calls[n].idx].outputs[k][2] = id
          /\ steps[calls[n].idx].outputs[k][1] \in
                InterpretedNames(steps[calls[n].idx], calls[n].result)

\* the value of the output that the n-th invocation produced under id
ProducedValue(n, id) ==
    LET step == steps[calls[n].idx]
        k == CHOOSE j \in 1..Len(step.outputs) :
                 /\ step.outputs[j][2] = id
                 /\ step.outputs[j][1] \in InterpretedNames(step, calls[n].result)
    IN  IF IsNamedResult(step, calls[n].result)
        THEN Get(calls[n].result, step.outputs[k][1])
        ELSE calls[n].result

\* the invocations before the n-th that produced an output under id
Producers(n, id) == {m \in 1..(n - 1) : Produces(m, id)}

\* C37: when the logic of a step returned, every output it produces under
\* an id the context already has replaces that entry with the new cell,
\* and the run goes on without error; and every invocation got, for an
\* input wired to an id that earlier invocations of the run produced, the
\* value that the last of them produced
C37_OutputReplacesEntry ==
    /\ [][LogicReturns =>
            /\ pc' = "running"
            /\ err' = err
            /\ LET step == steps[idx]
                   result == calls'[Len(calls')].result
               IN  \A k \in 1..Len(step.outputs) :
                      (step.outputs[k][1] \in InterpretedNames(step, result)
                          /\ step.outputs[k][2] \in DOMAIN ctx) =>
                         LET id == step.outputs[k][2] IN
                         /\ ctx'[id] # ctx[id]
                         /\ ctx'[id].id = id
                         /\ ctx'[id].reference_uri \notin DOMAIN data
                         /\ Held(data', ctx'[id]) =
                               IF IsNamedResult(step, result)
                               THEN Get(result, step.outputs[k][1])
                               ELSE result]_allVars
    /\ [](\A n \in 1..Len(calls) :
            \A j \in 1..Len(steps[calls[n].idx].inputs) :
               LET name == steps[calls[n].idx].inputs[j][1]
                   id == steps[calls[n].idx].inputs[j][2]
                   ms == Producers(n, id)
               IN  ms # {} =>
                     calls[n].kwargs[name] =
                        ProducedValue(CHOOSE m \in ms : \A o \in ms : o <= m, id))

\* the first step's output took the id of the video cell, an initial
\* cell, and the second step, wired to that id, read the first step's
\* result and put its own under the same id; the third step read that
C37_Witness ==
    /\ pc = "returned"
    /\ UrlCell \in initial
    /\ Len(calls) = 3
    /\ Ids(steps[1].outputs) = {UrlCell.id}
    /\ Ids(steps[2].outputs) = {UrlCell.id}
    /\ Ids(steps[2].inputs) = {UrlCell.id}
    /\ Ids(steps[3].inputs) = {UrlCell.id}
    /\ calls[1].kwargs["text"] = UrlCell.value
    /\ calls[2].kwargs["text"] = calls[1].result
    /\ calls[3].kwargs["text"] = calls[2].result
    /\ calls[2].result # calls[1].result
    /\ Held(data, ret.context[UrlCell.id]) = calls[2].result

\* C39: when the logic of a step that does not declare "return" returns a
\* value that is not a mapping with a key among the declared output names,
\* the step adds no cell to the context and puts nothing into the store,
\* and the run goes on to the next step without error
C39_NoOutputProduced ==
    [][(LogicReturns
          /\ "return" \notin Names(steps[idx].outputs)
          /\ ~IsNamedResult(steps[idx], calls'[Len(calls')].result)) =>
          /\ ctx' = ctx
          /\ data' = data
          /\ pc' = "running"
          /\ idx' = idx + 1
          /\ err' = err]_allVars

\* a step declared as text alone returned a dict without that key, and a
\* step declared as title alone returned a string: the run returned the
\* initial cells and the store is empty
C39_Witness ==
    /\ pc = "returned"
    /\ Len(calls) = 2
    /\ Names(steps[1].outputs) = {"text"}
    /\ calls[1].result.t = "dict"
    /\ Names(steps[2].outputs) = {"title"}
    /\ calls[2].result.t = "str"
    /\ DOMAIN ret.context = {c.id : c \in initial}
    /\ data = <<>>

----------------------------------------------------------------------------
(* A further property of Engine.run, checked under SpecCatalog *)

\* C38: a step executes the logic that the last register call for its slug
\* before that moment gave, whatever the catalog held when the step was
\* added; if the slug has no entry at that moment, because it was cleared
\* since, the run fails with the unknown-function error and no logic is
\* invoked
C38_LookupAtExecution ==
    [][(pc = "running" /\ idx <= Len(steps) /\ RunStep) =>
          LET step == steps[idx]
              entry == LastRegistered(step.function_slug)
          IN  IF entry = Absent
              THEN /\ pc' = "raised"
                   /\ err' = UnknownFunctionError(step)
                   /\ calls' = calls
                   /\ ctx' = ctx
              ELSE /\ Len(calls') = Len(calls) + 1
                   /\ LET c == calls'[Len(calls')]
                          res == Execute(entry, c.kwargs)
                      IN  /\ c.slug = step.function_slug
                          /\ c.ok = res.ok
                          /\ c.ok => c.result = res.val
                          /\ ~c.ok => err' = StepExecutionError(step, res.exc)
      ]_allVars

\* a step was added for add, which the catalog then held, the catalog was
\* cleared, and the run failed at that step with the unknown-function error
C38_Witness ==
    /\ Len(steps) = 1
    /\ steps[1].function_slug = "add"
    /\ registry = <<>>
    /\ regd = <<>>
    /\ pc = "raised"
    /\ err = UnknownFunctionError(steps[1])
    /\ calls = <<>>

----------------------------------------------------------------------------
(* The property of the Workflow context manager, checked under SpecContext *)

\* C40: entering a workflow pushes it on the stack and returns it, leaving
\* pops the top of the stack if there is one, and get_current returns the
\* top of the stack, or None when the stack is empty; none of the three
\* raises
C40_ContextStack ==
    /\ [][\A w \in ContextWorkflows :
             WorkflowEnter(w) =>
                 /\ cm'.exc = ""
                 /\ cm'.val = w
                 /\ stack' = Append(stack, w)]_allVars
    /\ [][\A w \in ContextWorkflows :
             WorkflowExit(w) =>
                 /\ cm'.exc = ""
                 /\ stack' = IF stack = <<>> THEN stack
                             ELSE SubSeq(stack, 1, Len(stack) - 1)]_allVars
    /\ [][WorkflowGetCurrent =>
             /\ cm'.exc = ""
             /\ cm'.val = IF stack = <<>> THEN Absent
                          ELSE stack[Len(stack)]]_allVars

====
